---- MODULE Spec2Model ----
(***************************************************************************)
(* State-machine model of mcp_ssh_server: the SSHConnectionManager of      *)
(* src/src/mcp_ssh_server/ssh_manager.py (connection pool, liveness probe, *)
(* command execution, interactive expect/response automation) and the      *)
(* multi-command handler of src/src/mcp_ssh_server/server.py.              *)
(*                                                                         *)
(* Worker threads call the manager concurrently.  Each thread has a        *)
(* program counter pc[t]; the manager's RLock is the variable lock.  The   *)
(* remote host, the transport library and uuid4 are the environment: their *)
(* outcomes are the \E-bound inputs of the actions.                        *)
(***************************************************************************)
EXTENDS Naturals, Integers, Sequences, FiniteSets, TLC

(***************************************************************************)
(* Bounds of the model                                                     *)
(***************************************************************************)
\* number of distinct values uuid4().hex[:8] takes in the model
NumUuids == 3
\* the clock runs from 0 to MaxTicks ticks
MaxTicks == 2
\* seconds per clock tick
TickSeconds == 1900
\* tunnels an external caller registers on one session
MaxTunnels == 1
\* length of the command list given to execute_multi
MaxCommands == 3
\* characters the remote side emits during one interactive command
MaxOutput == 3
\* length of the expect_prompts and responses lists
MaxPrompts == 2
\* commands the callers ask the executor to run in one behaviour
MaxCalls == 3
\* SSHConnectionManager(max_connections=...): the default is 50 and the
\* tests build the manager with a small pool; the model uses a pool of two
max_connections == 2
\* depth of the directory trees that are transferred
MaxDepth == 2
\* number of entries of a tree below its root
MaxEntries == 2
\* largest size of a regular file
MaxSize == 2
\* a failure of the transport hits one of the first MaxFailAt operations of
\* a transfer
MaxFailAt == 3
\* commands a session has run before the history is asked for
MaxHistory == 3
\* largest limit passed to get_command_history
MaxLimit == 4

(***************************************************************************)
(* Program constants                                                       *)
(***************************************************************************)
\* _cleanup_old_connections: age limit, seconds
MaxAgeSeconds == 3600
\* _cleanup_old_connections: idle limit, seconds
MaxIdleSeconds == 1800
\* execute_command: history cap
HistoryCap == 100

Threads == {"t1", "t2"}
\* Section 4.1 of the specification leaves it to the caller not to run two
\* commands on one session at a time: in the executor scenarios one thread
\* issues the commands and the other works on the pool
Callers == {"t1"}
Others == Threads \ Callers
NoThread == "none"
Hosts == {"h1"}
Users == {"u1"}
Ports == {22}
Uuids == 1..NumUuids
\* which credentials the caller passes to create_connection
Credentials == {[password |-> TRUE, private_key |-> FALSE],
                [password |-> FALSE, private_key |-> TRUE]}
Commands == {"ls", "false"}
TunnelIds == 1..MaxTunnels

VARIABLES
    connections,  \* self.connections: connection id -> SSHConnection
    lock,         \* self.lock: owner thread and re-entrancy depth
    now,          \* time.time(), in ticks
    pc,           \* per thread: position in the operation it runs
    call,         \* per thread: operation and arguments
    sent,         \* per thread: what the running call wrote to the remote side
    multi,        \* per thread: locals of the loop of _handle_execute_multi
                  \* or of get_system_info
    ia,           \* per thread: locals of execute_interactive_command
    last,         \* the call that completed last, until the next call is
                  \* issued: arguments, locals, outcome
    asked,        \* commands the callers have asked the executor to run so far
    local_files,  \* the local file system: path -> kind, size, mode
    remote_files  \* the file system of the remote host, as SFTP shows it

vars == <<connections, lock, now, pc, call, sent, multi, ia, last, asked,
          local_files, remote_files>>

(***************************************************************************)
(* Values                                                                  *)
(***************************************************************************)
\* connection_id = f"ssh_{uuid.uuid4().hex[:8]}_{host}_{username}"
ConnectionId(uuid, host, username) == <<"ssh", uuid, host, username>>

ConnectionIds == {ConnectionId(u, h, n) : u \in Uuids, h \in Hosts, n \in Users}

NoId == <<"ssh", 0, "", "">>

\* the SSHConnection dataclass
SSHConnection(host, port, username, t) ==
    [host |-> host, port |-> port, username |-> username,
     created_at |-> t, last_used |-> t, is_connected |-> TRUE,
     command_history |-> <<>>, tunnels |-> {}]

NoCall == [op |-> "none", id |-> NoId, host |-> "", port |-> 0, username |-> "",
           cred |-> [password |-> FALSE, private_key |-> FALSE],
           ref |-> "none", pref |-> "none", cmd |-> "", pool_before |-> {},
           todo |-> {}, swept |-> {}, probe |-> "none",
           connect |-> "none", closed |-> <<>>,
           expect_prompts |-> <<>>, responses |-> <<>>,
           local_path |-> <<>>, remote_path |-> <<>>, recursive |-> FALSE,
           preserve_permissions |-> FALSE, fresh |-> FALSE, stat |-> "none"]

NoRet == [status |-> "none", exc |-> "", msg |-> "", value |-> <<>>,
          fields |-> <<>>]

Returned(v) == [status |-> "ok", exc |-> "", msg |-> "", value |-> v,
                fields |-> <<>>]

\* an exception of exceptions.py: class, message, keyword fields
Raised(exc, msg, fields) ==
    [status |-> "error", exc |-> exc, msg |-> msg, value |-> <<>>,
     fields |-> fields]

NoMulti == [commands |-> <<>>, idx |-> 0, stop_on_error |-> FALSE,
            results |-> <<>>, response |-> <<>>]

\* the CommandResult dataclass (execution_time and stderr left out)
CommandResult(command, stdout, exit_code, success) ==
    [command |-> command, stdout |-> stdout, exit_code |-> exit_code,
     success |-> success]

NoIa == [i |-> 0, output |-> <<>>, channel |-> "none", pending |-> <<>>,
         emitted |-> 0, expired |-> FALSE, timed_out |-> FALSE]

NoLast == [thread |-> NoThread, call |-> NoCall, ret |-> NoRet, sent |-> <<>>,
           multi |-> NoMulti, ia |-> NoIa]

Free == [owner |-> NoThread, count |-> 0]

\* a lock that never makes a thread wait
CanAcquire_NoWait(t) == TRUE

\* threading.Lock: the holder waits for itself
CanAcquire_NotReentrant(t) == lock.owner = NoThread

\* threading.RLock: free, or already held by the same thread
CanAcquire(t) == lock.owner \in {NoThread, t}

Acquire(l, t) == [owner |-> t, count |-> l.count + 1]

Release(l) == IF l.count = 1 THEN Free ELSE [l EXCEPT !.count = l.count - 1]

PoolIds == DOMAIN connections

\* A thread that looked a connection up holds a reference to the
\* SSHConnection object: ref (the local `connection` of the operation) and
\* pref (the local `connection` of test_connection) are "pooled" while that
\* object is the pool's entry for call[t].id, and "detached" once the entry
\* was deleted or replaced.
DetachRef(r, id, ids) == IF r = "pooled" /\ id \in ids THEN "detached" ELSE r

Detach(calls, ids) ==
    [t \in Threads |-> [calls[t] EXCEPT !.ref = DetachRef(@, calls[t].id, ids),
                                        !.pref = DetachRef(@, calls[t].id, ids)]]

Seconds(ticks) == ticks * TickSeconds

\* remove key id from the dict
DictDel(d, id) == [k \in (DOMAIN d) \ {id} |-> d[k]]

\* d[id] = v
DictSet(d, id, v) == [k \in (DOMAIN d) \cup {id} |-> IF k = id THEN v ELSE d[k]]

(***************************************************************************)
(* disconnect and the eviction sweep                                       *)
(***************************************************************************)
\* which close call raises during one disconnect: none, a tunnel's close
\* (caught by the inner handler), the SFTP close, the client close
CloseFailures == {"none", "tunnel", "sftp", "client"}

\* the close calls disconnect attempts on a pooled connection, in order
DisconnectCloses(conn, fail) ==
    LET tunnelCloses == IF conn.tunnels = {} THEN <<>> ELSE <<"tunnel">>
    IN IF fail = "sftp" THEN tunnelCloses \o <<"sftp">>
       ELSE tunnelCloses \o <<"sftp", "client">>

\* the close call that raised during one disconnect
DisconnectRaised(conn, fail) ==
    IF fail = "tunnel" /\ conn.tunnels = {} THEN "none" ELSE fail

\* disconnect with the `del` of line 200 missing: only the except branch
\* removes the entry
DisconnectBody_NoDelOnSuccess(conns, id, fail) ==
    IF id \notin DOMAIN conns
    THEN [conns |-> conns, value |-> FALSE, closes |-> <<>>, raised |-> "none"]
    ELSE [conns |-> IF fail \in {"sftp", "client"} THEN DictDel(conns, id) ELSE conns,
          value |-> fail \notin {"sftp", "client"},
          closes |-> DisconnectCloses(conns[id], fail),
          raised |-> DisconnectRaised(conns[id], fail)]

\* disconnect with the `del` of line 208 missing: a raising close leaves the
\* entry in the pool
DisconnectBody_KeepOnError(conns, id, fail) ==
    IF id \notin DOMAIN conns
    THEN [conns |-> conns, value |-> FALSE, closes |-> <<>>, raised |-> "none"]
    ELSE [conns |-> IF fail \in {"sftp", "client"} THEN conns ELSE DictDel(conns, id),
          value |-> fail \notin {"sftp", "client"},
          closes |-> DisconnectCloses(conns[id], fail),
          raised |-> DisconnectRaised(conns[id], fail)]

\* disconnect reporting success for an id that is not pooled
DisconnectBody_UnknownIsSuccess(conns, id, fail) ==
    IF id \notin DOMAIN conns
    THEN [conns |-> conns, value |-> TRUE, closes |-> <<>>, raised |-> "none"]
    ELSE [conns |-> DictDel(conns, id),
          value |-> fail \notin {"sftp", "client"},
          closes |-> DisconnectCloses(conns[id], fail),
          raised |-> DisconnectRaised(conns[id], fail)]

\* body of disconnect, lock held: new pool, return value, closes attempted,
\* the close that raised
DisconnectBody(conns, id, fail) ==
    IF id \notin DOMAIN conns
    THEN [conns |-> conns, value |-> FALSE, closes |-> <<>>, raised |-> "none"]
    ELSE [conns |-> DictDel(conns, id),
          value |-> fail \notin {"sftp", "client"},
          closes |-> DisconnectCloses(conns[id], fail),
          raised |-> DisconnectRaised(conns[id], fail)]

\* what disconnect hands to its caller, with the record of the close calls
DisconnectReturn(r) ==
    [Returned(r.value) EXCEPT !.fields = [closes |-> r.closes, raised |-> r.raised]]

\* the sweep with the two limits exchanged
Evictable_SwappedLimits(conn, current_time) ==
    \/ Seconds(current_time) - Seconds(conn.created_at) > MaxIdleSeconds
    \/ Seconds(current_time) - Seconds(conn.last_used) > MaxAgeSeconds
    \/ ~conn.is_connected

\* lines 646-648: the condition of the sweep
Evictable(conn, current_time) ==
    \/ Seconds(current_time) - Seconds(conn.created_at) > MaxAgeSeconds
    \/ Seconds(current_time) - Seconds(conn.last_used) > MaxIdleSeconds
    \/ ~conn.is_connected

\* the ids _cleanup_old_connections collects in connections_to_remove
ConnectionsToRemove(conns, current_time) ==
    {i \in DOMAIN conns : Evictable(conns[i], current_time)}

\* the next id a loop over the ids of todo disconnects
NextTodo(todo) == CHOOSE i \in todo : TRUE

(***************************************************************************)
(* A call of thread t completes with outcome r: the caller gets r, the     *)
(* thread is ready for its next call.  calls, snt, mlt, iav are the        *)
(* thread-local values at the moment of the return.                        *)
(***************************************************************************)
CompleteWith(t, calls, r, snt, mlt, iav) ==
    /\ pc' = [pc EXCEPT ![t] = "idle"]
    /\ last' = [thread |-> t, call |-> calls[t], ret |-> r, sent |-> snt,
                multi |-> mlt, ia |-> iav]
    /\ call' = [calls EXCEPT ![t] = NoCall]
    /\ sent' = [sent EXCEPT ![t] = <<>>]
    /\ multi' = [multi EXCEPT ![t] = NoMulti]
    /\ ia' = [ia EXCEPT ![t] = NoIa]

Complete(t, calls, r) == CompleteWith(t, calls, r, sent[t], multi[t], ia[t])

(***************************************************************************)
(* create_connection                                                       *)
(***************************************************************************)
\* what client.connect / _parse_private_key / open_sftp do in one create
ConnectOutcomes == {"ok", "bad_key", "auth", "ssh", "socket", "other", "sftp"}

\* the capacity test with > in place of >=
AtCapacity_OffByOne(conns) == Cardinality(DOMAIN conns) > max_connections

\* the capacity test of create_connection
AtCapacity(conns) == Cardinality(DOMAIN conns) >= max_connections

\* the method reported without a look at the credentials
AuthMethod_AlwaysPassword(cred) == "password"

\* line 151: "password" if password else "key"
AuthMethod(cred) == IF cred.password THEN "password" ELSE "key"

\* the exception create_connection raises for a failed connect
CreateError(outcome, c) ==
    CASE outcome = "auth" ->
            Raised("SSHAuthenticationError", "Authentication failed",
                   [username |-> c.username, auth_method |-> AuthMethod(c.cred)])
      [] outcome = "ssh" ->
            Raised("SSHConnectionError", "SSH connection failed",
                   [host |-> c.host, port |-> c.port])
      [] outcome = "sftp" ->
            Raised("SSHConnectionError", "SSH connection failed",
                   [host |-> c.host, port |-> c.port])
      [] outcome = "socket" ->
            Raised("SSHConnectionError", "Network error connecting",
                   [host |-> c.host, port |-> c.port])
      \* _parse_private_key raises SSHAuthenticationError inside the try block;
      \* it is neither a paramiko nor a socket error, so the last handler
      \* re-wraps it
      [] outcome \in {"other", "bad_key"} ->
            Raised("SSHConnectionError", "Unexpected error connecting",
                   [host |-> c.host, port |-> c.port])

\* lines 102-106: the pool is still full after the sweep
CapacityError ==
    Raised("SSHConnectionError", "Maximum number of connections reached",
           [max_connections |-> max_connections])

\* lines 97-100 and 641-649: take the lock, test the capacity, collect the
\* connections the sweep removes
CreateBegin(t, host, port, username, cred) ==
    /\ pc[t] = "idle"
    /\ CanAcquire(t)
    /\ LET c == [NoCall EXCEPT !.op = "create", !.host = host, !.port = port,
                               !.username = username, !.cred = cred,
                               !.pool_before = PoolIds]
           todo == ConnectionsToRemove(connections, now)
       IN IF AtCapacity(connections) /\ todo = {}
          THEN /\ Complete(t, [call EXCEPT ![t] = c], CapacityError)
               /\ lock' = lock
          ELSE /\ pc' = [pc EXCEPT ![t] = IF AtCapacity(connections)
                                          THEN "create_sweep" ELSE "create_connect"]
               /\ call' = [call EXCEPT ![t] =
                             IF AtCapacity(connections)
                             THEN [c EXCEPT !.todo = todo, !.swept = todo]
                             ELSE c]
               /\ lock' = Acquire(lock, t)
               /\ last' = NoLast
               /\ UNCHANGED <<sent, multi, ia>>
    /\ UNCHANGED <<connections, now, asked>>
    /\ UNCHANGED <<local_files, remote_files>>

\* lines 651-655 and 102-106: the sweep disconnects one collected connection;
\* after the last one create_connection tests the capacity again
CreateSweep(t, fail) ==
    /\ pc[t] = "create_sweep"
    \* disconnect takes the lock its caller holds (line 178)
    /\ CanAcquire(t)
    /\ LET i == NextTodo(call[t].todo)
           r == DisconnectBody(connections, i, fail)
           rest == call[t].todo \ {i}
           calls == Detach([call EXCEPT ![t].todo = rest,
                                        ![t].pool_before = DOMAIN r.conns], {i})
       IN /\ connections' = r.conns
          /\ IF rest = {} /\ AtCapacity(r.conns)
             THEN /\ Complete(t, calls, CapacityError)
                  /\ lock' = Release(lock)
             ELSE /\ pc' = [pc EXCEPT ![t] = IF rest = {} THEN "create_connect"
                                             ELSE "create_sweep"]
                  /\ call' = calls
                  /\ UNCHANGED <<lock, sent, multi, ia, last>>
    /\ UNCHANGED <<now, asked>>
    /\ UNCHANGED <<local_files, remote_files>>

\* the connection stored before the SFTP channel is opened
CreateStores_BeforeSftp(outcome) == outcome \in {"ok", "sftp"}

\* line 142 is reached only when connect and open_sftp have both returned
CreateStores(outcome) == outcome = "ok"

\* lines 108-174: generate the id, connect, open SFTP, store the connection,
\* or raise
CreateConnect(t, uuid, outcome) ==
    /\ pc[t] = "create_connect"
    /\ outcome = "bad_key" => call[t].cred.private_key
    /\ LET id == ConnectionId(uuid, call[t].host, call[t].username)
           calls == [call EXCEPT ![t].id = id, ![t].connect = outcome]
       IN IF CreateStores(outcome)
          THEN /\ connections' = DictSet(connections, id,
                                        SSHConnection(call[t].host, call[t].port,
                                                      call[t].username, now))
               /\ Complete(t, Detach(calls, {id}),
                           IF outcome = "ok" THEN Returned(id)
                           ELSE CreateError(outcome, call[t]))
          ELSE /\ connections' = connections
               /\ Complete(t, calls, CreateError(outcome, call[t]))
    /\ lock' = Release(lock)
    /\ UNCHANGED <<now, asked>>
    /\ UNCHANGED <<local_files, remote_files>>

(***************************************************************************)
(* disconnect, cleanup_all_connections, get_connection                     *)
(***************************************************************************)
\* lines 178-182: take the lock, look the id up
DisconnectBegin(t, id) ==
    /\ pc[t] = "idle"
    /\ CanAcquire(t)
    /\ LET c == [NoCall EXCEPT !.op = "disconnect", !.id = id]
       IN IF id \notin PoolIds
          THEN /\ Complete(t, [call EXCEPT ![t] = c],
                           DisconnectReturn(DisconnectBody(connections, id, "none")))
               /\ lock' = lock
          ELSE /\ pc' = [pc EXCEPT ![t] = "disconnect_close"]
               /\ call' = [call EXCEPT ![t] = c]
               /\ lock' = Acquire(lock, t)
               /\ last' = NoLast
               /\ UNCHANGED <<sent, multi, ia>>
    /\ UNCHANGED <<connections, now, asked>>
    /\ UNCHANGED <<local_files, remote_files>>

\* lines 184-209: close tunnels, SFTP and client, remove the entry
DisconnectClose(t, fail) ==
    /\ pc[t] = "disconnect_close"
    /\ LET r == DisconnectBody(connections, call[t].id, fail)
       IN /\ connections' = r.conns
          /\ Complete(t, Detach(call, {call[t].id}), DisconnectReturn(r))
    /\ lock' = Release(lock)
    /\ UNCHANGED <<now, asked>>
    /\ UNCHANGED <<local_files, remote_files>>

\* cleanup_all_connections, lines 631-632: take the lock, list the ids
CleanupAllBegin(t) ==
    /\ pc[t] = "idle"
    /\ CanAcquire(t)
    /\ LET c == [NoCall EXCEPT !.op = "cleanup_all", !.todo = PoolIds,
                               !.pool_before = PoolIds]
       IN IF PoolIds = {}
          THEN /\ Complete(t, [call EXCEPT ![t] = c], Returned(<<>>))
               /\ lock' = lock
          ELSE /\ pc' = [pc EXCEPT ![t] = "cleanup_all"]
               /\ call' = [call EXCEPT ![t] = c]
               /\ lock' = Acquire(lock, t)
               /\ last' = NoLast
               /\ UNCHANGED <<sent, multi, ia>>
    /\ UNCHANGED <<connections, now, asked>>
    /\ UNCHANGED <<local_files, remote_files>>

\* cleanup_all_connections, lines 633-637: disconnect the next listed id;
\* closed records, per id, the close calls made and the one that raised
CleanupAllStep(t, fail) ==
    /\ pc[t] = "cleanup_all"
    \* disconnect takes the lock its caller holds (line 178)
    /\ CanAcquire(t)
    /\ LET i == NextTodo(call[t].todo)
           r == DisconnectBody(connections, i, fail)
           rest == call[t].todo \ {i}
           calls == Detach([call EXCEPT ![t].todo = rest,
                                        ![t].closed = DictSet(@, i,
                                            [closes |-> r.closes,
                                             raised |-> r.raised])], {i})
       IN /\ connections' = r.conns
          /\ IF rest = {}
             THEN /\ Complete(t, calls, Returned(<<>>))
                  /\ lock' = Release(lock)
             ELSE /\ call' = calls
                  /\ UNCHANGED <<pc, lock, sent, multi, ia, last>>
    /\ UNCHANGED <<now, asked>>
    /\ UNCHANGED <<local_files, remote_files>>

\* get_connection body: the pool after last_used was touched
Touch(conns, id, current_time) ==
    IF id \in DOMAIN conns
    THEN [conns EXCEPT ![id].last_used = current_time]
    ELSE conns

\* what get_connection returns: the identity of the connection, or None
Lookup(conns, id) ==
    IF id \in DOMAIN conns
    THEN [found |-> TRUE, host |-> conns[id].host, port |-> conns[id].port,
          username |-> conns[id].username]
    ELSE [found |-> FALSE, host |-> "", port |-> 0, username |-> ""]

\* lines 223-234: the entry of list_connections for connection conn
ConnectionSummary(id, conn) ==
    [id |-> id, host |-> conn.host, port |-> conn.port, username |-> conn.username,
     created_at |-> conn.created_at, last_used |-> conn.last_used,
     is_connected |-> conn.is_connected,
     command_count |-> Len(conn.command_history),
     tunnel_count |-> Cardinality(conn.tunnels)]

\* list_connections, lines 219-235: the summaries of the pooled
\* connections, by id
ListConnections(t) ==
    /\ pc[t] = "idle"
    /\ CanAcquire(t)
    /\ Complete(t, [call EXCEPT ![t] = [NoCall EXCEPT !.op = "list_connections"]],
                Returned([i \in PoolIds |-> ConnectionSummary(i, connections[i])]))
    /\ UNCHANGED <<connections, lock, now, asked, local_files, remote_files>>

\* get_connection called by an outside caller
GetConnection(t, id) ==
    /\ pc[t] = "idle"
    /\ CanAcquire(t)
    /\ connections' = Touch(connections, id, now)
    /\ Complete(t, [call EXCEPT ![t] = [NoCall EXCEPT !.op = "get_connection", !.id = id]],
                Returned(Lookup(connections, id)))
    /\ UNCHANGED <<lock, now, asked>>
    /\ UNCHANGED <<local_files, remote_files>>

(***************************************************************************)
(* test_connection                                                         *)
(***************************************************************************)
\* what the transport does during one probe: get_transport() is None or
\* inactive; the echo round trip answers "test"; it answers something else;
\* exec_command raises before the echo is written; reading the answer raises
ProbeOutcomes == {"inactive", "echo_ok", "echo_wrong", "raise_exec", "raise_read"}

\* the probe accepting whatever the echo round trip answers
ProbeResult_AnyEcho(outcome) == outcome \in {"echo_ok", "echo_wrong"}

\* lines 245-254: the value test_connection returns
ProbeResult(outcome) == outcome = "echo_ok"

\* lines 252-253: the except branch marks the connection
ProbeMarks(outcome) == outcome \in {"raise_exec", "raise_read"}

\* what the probe writes to the remote side
ProbeSends(outcome) ==
    IF outcome \in {"echo_ok", "echo_wrong", "raise_read"}
    THEN <<[kind |-> "probe", text |-> "echo test"]>>
    ELSE <<>>

\* a probe that drops the connection it found dead
ProbeEffect_DropsDead(conns, id, r, outcome) ==
    IF ProbeMarks(outcome) /\ r = "pooled"
    THEN DictDel(conns, id)
    ELSE conns

\* the pool after the probe of the object behind reference r
ProbeEffect(conns, id, r, outcome) ==
    IF ProbeMarks(outcome) /\ r = "pooled"
    THEN [conns EXCEPT ![id].is_connected = FALSE]
    ELSE conns

\* test_connection, line 239: get_connection, None ends the probe
TestConnectionBegin(t, id) ==
    /\ pc[t] = "idle"
    /\ CanAcquire(t)
    /\ connections' = Touch(connections, id, now)
    /\ LET c == [NoCall EXCEPT !.op = "test_connection", !.id = id]
       IN IF id \in PoolIds
          THEN /\ pc' = [pc EXCEPT ![t] = "probe_check"]
               /\ call' = [call EXCEPT ![t] = [c EXCEPT !.pref = "pooled"]]
               /\ last' = NoLast
               /\ UNCHANGED <<sent, multi, ia>>
          ELSE Complete(t, [call EXCEPT ![t] = c], Returned(FALSE))
    /\ UNCHANGED <<lock, now, asked>>
    /\ UNCHANGED <<local_files, remote_files>>

(***************************************************************************)
(* execute_command                                                         *)
(***************************************************************************)
\* what exec_command and the reads do for one command: exit status 0 or 1;
\* SSHException before the command is written; SSHException, socket.timeout
\* or another exception while the output is read
ExecOutcomes == {"exit0", "exit1", "ssh_exc_open", "ssh_exc_read", "timeout",
                 "other_exc"}

ExitCode(outcome) == IF outcome = "exit0" THEN 0 ELSE 1

\* lines 285-287: append, keep the last HistoryCap entries
HistoryAppend(history, command) ==
    LET h == Append(history, command)
    IN IF Len(h) > HistoryCap
       THEN SubSeq(h, Len(h) - HistoryCap + 1, Len(h))
       ELSE h

\* execute_command without its last handler: an exception that is neither an
\* SSHException nor a socket.timeout leaves the call as it was raised
ExecResult_NoCatchAll(command, outcome) ==
    CASE outcome \in {"exit0", "exit1"} ->
            Returned(CommandResult(command, <<>>, ExitCode(outcome),
                                   ExitCode(outcome) = 0))
      [] outcome \in {"ssh_exc_open", "ssh_exc_read"} ->
            Raised("SSHCommandError", "SSH error executing command",
                   [command |-> command])
      [] outcome = "timeout" ->
            Raised("SSHTimeoutError", "Command timed out",
                   [operation |-> "command_execution"])
      [] outcome = "other_exc" ->
            Raised("Exception", "", <<>>)

\* lines 289-318: the CommandResult returned or the exception raised
ExecResult(command, outcome) ==
    CASE outcome \in {"exit0", "exit1"} ->
            Returned(CommandResult(command, <<>>, ExitCode(outcome),
                                   ExitCode(outcome) = 0))
      [] outcome \in {"ssh_exc_open", "ssh_exc_read"} ->
            Raised("SSHCommandError", "SSH error executing command",
                   [command |-> command])
      [] outcome = "timeout" ->
            Raised("SSHTimeoutError", "Command timed out",
                   [operation |-> "command_execution"])
      [] outcome = "other_exc" ->
            Raised("SSHCommandError", "Error executing command",
                   [command |-> command])

\* what execute_command writes to the remote side
ExecSends(command, outcome) ==
    IF outcome = "ssh_exc_open" THEN <<>>
    ELSE <<[kind |-> "exec", text |-> command]>>

\* the history recording only the commands that exit with status 0
ExecEffect_OnlyExitZero(conns, id, r, command, outcome) ==
    IF outcome = "exit0" /\ r = "pooled"
    THEN [conns EXCEPT ![id].command_history = HistoryAppend(@, command)]
    ELSE conns

\* the pool after execute_command ran on the object behind reference r
ExecEffect(conns, id, r, command, outcome) ==
    IF outcome \in {"exit0", "exit1"} /\ r = "pooled"
    THEN [conns EXCEPT ![id].command_history = HistoryAppend(@, command)]
    ELSE conns

\* one entry of the text _handle_execute_multi builds for command i
MultiReport(i, command, r) ==
    IF r.status = "ok"
    THEN [kind |-> "result", i |-> i, command |-> command,
          exit_code |-> r.value.exit_code, success |-> r.value.success]
    ELSE [kind |-> "failed", i |-> i, command |-> command,
          exit_code |-> -1, success |-> FALSE]

\* the loop body without its two break statements
MultiCollect_NoBreak(m, r) ==
    LET i == m.idx
    IN [m EXCEPT !.results = IF r.status = "ok" THEN Append(@, r.value) ELSE @,
                 !.response = Append(@, MultiReport(i, m.commands[i], r)),
                 !.idx = i + 1]

\* the loop body breaking at a failure whatever stop_on_error says
MultiCollect_AlwaysBreak(m, r) ==
    LET i == m.idx
        failed == IF r.status = "ok" THEN ~r.value.success ELSE TRUE
    IN [m EXCEPT !.results = IF r.status = "ok" THEN Append(@, r.value) ELSE @,
                 !.response = Append(@, MultiReport(i, m.commands[i], r)),
                 !.idx = IF failed THEN Len(m.commands) + 1 ELSE i + 1]

\* server.py lines 576-604: the loop body after execute_command returned or
\* raised r for command idx
MultiCollect(m, r) ==
    LET i == m.idx
        reported == Append(m.response, MultiReport(i, m.commands[i], r))
        failed == IF r.status = "ok" THEN ~r.value.success ELSE TRUE
        break == failed /\ m.stop_on_error
    IN [m EXCEPT !.results = IF r.status = "ok" THEN Append(@, r.value) ELSE @,
                 !.response = IF break
                              THEN Append(reported,
                                          [kind |-> "stopping", i |-> i,
                                           command |-> m.commands[i],
                                           exit_code |-> -1, success |-> FALSE])
                              ELSE reported,
                 !.idx = IF break THEN Len(m.commands) + 1 ELSE i + 1]

\* lines 607-616: the keys and their commands, in the order of the dict
SystemInfoKeys == <<"hostname", "kernel", "os", "architecture", "uptime",
                    "memory", "disk", "cpu">>

SystemInfoCommands == <<"hostname", "uname -r", "uname -o", "uname -m", "uptime",
                        "free -h", "df -h", "lscpu | head -20">>

\* the loop body leaving out the key of a command that raises
InfoCollect_SkipOnRaise(m, r) ==
    [m EXCEPT !.response = IF r.status = "ok"
                           THEN DictSet(@, SystemInfoKeys[m.idx],
                                        IF r.value.success THEN r.value.stdout
                                        ELSE "N/A")
                           ELSE @,
              !.results = Append(@, r),
              !.idx = m.idx + 1]

\* lines 620-625: the loop body after execute_command returned or raised r
\* for the command of key idx; response is the dict system_info, results
\* logs what each execute_command call did (the stdout of the model's
\* executor is empty, and so is its strip())
InfoCollect(m, r) ==
    [m EXCEPT !.response = DictSet(@, SystemInfoKeys[m.idx],
                                   IF r.status = "ok" /\ r.value.success
                                   THEN r.value.stdout ELSE "N/A"),
              !.results = Append(@, r),
              !.idx = m.idx + 1]

\* execute_command ends with r; its caller is the tool handler of execute,
\* the loop of _handle_execute_multi or the loop of get_system_info
ExecFinish(t, calls, r, snt) ==
    IF calls[t].op = "get_system_info"
    THEN LET m == InfoCollect(multi[t], r)
         IN IF m.idx > Len(m.commands)
            THEN CompleteWith(t, calls, Returned(m.response), snt, m, ia[t])
            ELSE /\ pc' = [pc EXCEPT ![t] = "info_next"]
                 /\ multi' = [multi EXCEPT ![t] = m]
                 /\ call' = [calls EXCEPT ![t].ref = "none", ![t].pref = "none",
                                          ![t].probe = "none"]
                 /\ sent' = [sent EXCEPT ![t] = snt]
                 /\ UNCHANGED <<ia, last>>
    ELSE IF calls[t].op = "execute_multi"
    THEN LET m == MultiCollect(multi[t], r)
         IN IF m.idx > Len(m.commands)
            THEN CompleteWith(t, calls, Returned(m.response), snt, m, ia[t])
            ELSE /\ pc' = [pc EXCEPT ![t] = "multi_next"]
                 /\ multi' = [multi EXCEPT ![t] = m]
                 /\ call' = [calls EXCEPT ![t].ref = "none", ![t].pref = "none",
                                          ![t].probe = "none"]
                 /\ sent' = [sent EXCEPT ![t] = snt]
                 /\ UNCHANGED <<ia, last>>
    ELSE CompleteWith(t, calls, r, snt, multi[t], ia[t])

\* lines 264-266: get_connection, None raises
ExecLookup(t, c) ==
    /\ CanAcquire(t)
    /\ connections' = Touch(connections, c.id, now)
    /\ IF c.id \in PoolIds
       THEN /\ pc' = [pc EXCEPT ![t] = "probe_lookup"]
            /\ call' = [call EXCEPT ![t] = [c EXCEPT !.ref = "pooled"]]
            /\ last' = IF pc[t] = "idle" THEN NoLast ELSE last
            /\ UNCHANGED <<sent, multi, ia>>
       ELSE ExecFinish(t, [call EXCEPT ![t] = c],
                       Raised("SSHConnectionError", "not found", <<>>), sent[t])
    /\ UNCHANGED <<lock, now>>

ExecuteBegin(t, id, command) ==
    /\ pc[t] = "idle"
    /\ asked < MaxCalls
    /\ asked' = asked + 1
    /\ ExecLookup(t, [NoCall EXCEPT !.op = "execute", !.id = id, !.cmd = command])
    /\ UNCHANGED <<local_files, remote_files>>

\* lines 268 and 239: test_connection looks the id up again
ProbeLookup(t) ==
    /\ pc[t] = "probe_lookup"
    /\ CanAcquire(t)
    /\ connections' = Touch(connections, call[t].id, now)
    /\ IF call[t].id \in PoolIds
       THEN /\ pc' = [pc EXCEPT ![t] = "probe_check"]
            /\ call' = [call EXCEPT ![t].pref = "pooled"]
            /\ UNCHANGED <<sent, multi, ia, last>>
       ELSE ExecFinish(t, [call EXCEPT ![t].probe = "absent"],
                       Raised("SSHConnectionError", "is not active", <<>>), sent[t])
    /\ UNCHANGED <<lock, now, asked>>
    /\ UNCHANGED <<local_files, remote_files>>

\* the length test flagging only a responses list that is too short
ArgumentsMismatch_OnlyFewerResponses(c) == Len(c.expect_prompts) > Len(c.responses)

\* line 336: len(expect_prompts) != len(responses)
ArgumentsMismatch(c) == Len(c.expect_prompts) # Len(c.responses)

\* lines 243-254, and what the caller of test_connection does with the answer
ProbeCheck(t, outcome) ==
    /\ pc[t] = "probe_check"
    /\ connections' = ProbeEffect(connections, call[t].id, call[t].pref, outcome)
    /\ LET snt == sent[t] \o ProbeSends(outcome)
           calls == [call EXCEPT ![t].probe = outcome]
           inactive == Raised("SSHConnectionError", "is not active", <<>>)
       IN CASE call[t].op = "test_connection" ->
                  CompleteWith(t, calls, Returned(ProbeResult(outcome)), snt,
                               multi[t], ia[t])
            [] call[t].op \in {"execute", "execute_multi", "get_system_info"} ->
                  IF ProbeResult(outcome)
                  THEN /\ pc' = [pc EXCEPT ![t] = "exec_run"]
                       /\ sent' = [sent EXCEPT ![t] = snt]
                       /\ call' = calls
                       /\ UNCHANGED <<multi, ia, last>>
                  ELSE ExecFinish(t, calls, inactive, snt)
            \* execute_interactive_command, lines 333-340
            [] call[t].op = "execute_interactive" ->
                  IF ~ProbeResult(outcome)
                  THEN ExecFinish(t, calls, inactive, snt)
                  ELSE IF ArgumentsMismatch(call[t])
                  THEN ExecFinish(t, calls,
                                  Raised("SSHCommandError",
                                         "Number of expect prompts must match number of responses",
                                         [command |-> call[t].cmd]),
                                  snt)
                  ELSE /\ pc' = [pc EXCEPT ![t] = "ia_open"]
                       /\ sent' = [sent EXCEPT ![t] = snt]
                       /\ call' = calls
                       /\ UNCHANGED <<multi, ia, last>>
    /\ UNCHANGED <<lock, now, asked>>
    /\ UNCHANGED <<local_files, remote_files>>

\* lines 271-318: run the command, record it, build the result
ExecRun(t, outcome) ==
    /\ pc[t] = "exec_run"
    /\ connections' = ExecEffect(connections, call[t].id, call[t].ref,
                                 call[t].cmd, outcome)
    /\ ExecFinish(t, call, ExecResult(call[t].cmd, outcome),
                  sent[t] \o ExecSends(call[t].cmd, outcome))
    /\ UNCHANGED <<lock, now, asked>>
    /\ UNCHANGED <<local_files, remote_files>>

(***************************************************************************)
(* _handle_execute_multi (server.py)                                       *)
(***************************************************************************)
\* lines 567-573: read the arguments, start the loop
ExecuteMultiBegin(t, id, commands, stop_on_error) ==
    /\ pc[t] = "idle"
    /\ asked + Len(commands) <= MaxCalls
    /\ asked' = asked + Len(commands)
    /\ LET c == [NoCall EXCEPT !.op = "execute_multi", !.id = id]
           m == [NoMulti EXCEPT !.commands = commands, !.idx = 1,
                                !.stop_on_error = stop_on_error]
       IN IF commands = <<>>
          THEN CompleteWith(t, [call EXCEPT ![t] = c], Returned(<<>>), sent[t], m, ia[t])
          ELSE /\ pc' = [pc EXCEPT ![t] = "multi_next"]
               /\ call' = [call EXCEPT ![t] = c]
               /\ multi' = [multi EXCEPT ![t] = m]
               /\ last' = NoLast
               /\ UNCHANGED <<sent, ia>>
    /\ UNCHANGED <<connections, lock, now>>
    /\ UNCHANGED <<local_files, remote_files>>

\* lines 576-581: call execute_command for the next command
ExecuteMultiNext(t) ==
    /\ pc[t] = "multi_next"
    /\ UNCHANGED asked
    /\ ExecLookup(t, [call[t] EXCEPT !.cmd = multi[t].commands[multi[t].idx]])
    /\ UNCHANGED <<local_files, remote_files>>

(***************************************************************************)
(* execute_interactive_command                                             *)
(***************************************************************************)
\* the characters of the remote output
Chars == {"a", "b"}

\* the prompts a caller waits for
Prompts == {<<"b">>, <<"a", "b">>}

PromptLists == UNION {[1..n -> Prompts] : n \in 0..MaxPrompts}

ResponseTexts == <<"r1", "r2", "r3", "r4">>

\* the responses list of length n
ResponseList(n) == SubSeq(ResponseTexts, 1, n)

\* Python's `prompt in output`
Contains(output, prompt) ==
    \E k \in 0..(Len(output) - Len(prompt)) :
        SubSeq(output, k + 1, k + Len(prompt)) = prompt

\* the wait ending as soon as any output has arrived
PromptMatched_AnyData(output, prompt) == output # <<>>

\* line 359: the test that ends the wait for a prompt
PromptMatched(output, prompt) == Contains(output, prompt)

\* the history entry without the marker
InteractiveEntry_Plain(command) == command

\* line 383: the history entry of an interactive command
InteractiveEntry(command) == "INTERACTIVE: " \o command

\* line 364: the message of the SSHTimeoutError raised at the deadline
TimeoutText == "Interactive command timed out waiting for prompt"

\* lines 397-402: every exception raised inside the try block, the
\* SSHTimeoutError of line 363 included, leaves as SSHCommandError
InteractiveError(command, cause) ==
    Raised("SSHCommandError", "Error executing interactive command",
           [command |-> command, error |-> cause])

ExecuteInteractiveBegin(t, id, command, expect_prompts, responses) ==
    /\ pc[t] = "idle"
    /\ asked < MaxCalls
    /\ asked' = asked + 1
    /\ ExecLookup(t, [NoCall EXCEPT !.op = "execute_interactive", !.id = id,
                                    !.cmd = command,
                                    !.expect_prompts = expect_prompts,
                                    !.responses = responses])
    /\ UNCHANGED <<local_files, remote_files>>

\* lines 346-352: invoke_shell, settimeout, send the command
InteractiveOpen(t, outcome) ==
    /\ pc[t] = "ia_open"
    /\ CASE outcome = "ok" ->
              /\ ia' = [ia EXCEPT ![t] = [NoIa EXCEPT !.channel = "open", !.i = 1]]
              /\ sent' = [sent EXCEPT ![t] =
                            Append(@, [kind |-> "shell", text |-> call[t].cmd])]
              /\ pc' = [pc EXCEPT ![t] = IF call[t].expect_prompts = <<>>
                                         THEN "ia_drain" ELSE "ia_wait"]
              /\ UNCHANGED <<call, multi, last>>
         [] outcome = "raise_shell" ->
              ExecFinish(t, call, InteractiveError(call[t].cmd, "invoke_shell"), sent[t])
         [] outcome = "raise_send" ->
              CompleteWith(t, call, InteractiveError(call[t].cmd, "send"), sent[t],
                           multi[t], [NoIa EXCEPT !.channel = "open", !.i = 1])
    /\ UNCHANGED <<connections, lock, now, asked>>
    /\ UNCHANGED <<local_files, remote_files>>

\* lines 355-371: one iteration of the polling loop for prompt i.  n is the
\* number of buffered characters recv returns.
InteractivePoll(t, n, outcome) ==
    /\ pc[t] = "ia_wait"
    /\ LET v == ia[t]
           prompt == call[t].expect_prompts[v.i]
           ready == v.pending # <<>>
           output == IF ready THEN v.output \o SubSeq(v.pending, 1, n) ELSE v.output
           received == [v EXCEPT !.output = output,
                                 !.pending = IF ready
                                             THEN SubSeq(@, n + 1, Len(@)) ELSE @]
       IN /\ n \in (IF ready THEN 1..Len(v.pending) ELSE {0})
          /\ IF ready /\ PromptMatched(output, prompt)
             THEN \* break, then send the response
                  IF outcome = "raise"
                  THEN CompleteWith(t, call, InteractiveError(call[t].cmd, "send"),
                                    sent[t], multi[t], received)
                  ELSE /\ sent' = [sent EXCEPT ![t] =
                                     Append(@, [kind |-> "response",
                                                text |-> call[t].responses[v.i]])]
                       /\ ia' = [ia EXCEPT ![t] = [received EXCEPT !.i = v.i + 1]]
                       /\ pc' = [pc EXCEPT ![t] =
                                   IF v.i = Len(call[t].expect_prompts)
                                   THEN "ia_drain" ELSE "ia_wait"]
                       /\ UNCHANGED <<call, multi, last>>
             ELSE \* sleep, then test the deadline
                  /\ outcome = "ok"
                  /\ IF v.expired
                     THEN CompleteWith(t, call,
                                       InteractiveError(call[t].cmd, TimeoutText),
                                       sent[t], multi[t],
                                       [received EXCEPT !.timed_out = TRUE])
                     ELSE /\ ia' = [ia EXCEPT ![t] = received]
                          /\ UNCHANGED <<pc, call, sent, multi, last>>
    /\ UNCHANGED <<connections, lock, now, asked>>
    /\ UNCHANGED <<local_files, remote_files>>

\* lines 373-402: drain the channel, close it, record the command
InteractiveDrain(t, outcome) ==
    /\ pc[t] = "ia_drain"
    /\ LET v == ia[t]
           output == v.output \o v.pending
       IN IF outcome = "raise"
          THEN /\ connections' = connections
               /\ CompleteWith(t, call, InteractiveError(call[t].cmd, "recv"),
                               sent[t], multi[t], v)
          ELSE /\ connections' =
                     IF call[t].ref = "pooled"
                     THEN [connections EXCEPT ![call[t].id].command_history =
                              Append(@, InteractiveEntry(call[t].cmd))]
                     ELSE connections
               /\ CompleteWith(t, call,
                               Returned(CommandResult(call[t].cmd, output, 0, TRUE)),
                               sent[t], multi[t],
                               [v EXCEPT !.output = output, !.pending = <<>>,
                                         !.channel = "closed"])
    /\ UNCHANGED <<lock, now, asked>>
    /\ UNCHANGED <<local_files, remote_files>>

\* the remote side writes one character to the shell channel
RemoteEmit(t, ch) ==
    /\ pc[t] \in {"ia_wait", "ia_drain"}
    /\ ia[t].emitted < MaxOutput
    /\ ia' = [ia EXCEPT ![t].pending = Append(@, ch), ![t].emitted = @ + 1]
    /\ UNCHANGED <<connections, lock, now, pc, call, sent, multi, last, asked>>
    /\ UNCHANGED <<local_files, remote_files>>

\* time.time() - start_time passes timeout
DeadlinePasses(t) ==
    /\ pc[t] \in {"ia_wait", "ia_drain"}
    /\ ~ia[t].expired
    /\ ia' = [ia EXCEPT ![t].expired = TRUE]
    /\ UNCHANGED <<connections, lock, now, pc, call, sent, multi, last, asked>>
    /\ UNCHANGED <<local_files, remote_files>>

(***************************************************************************)
(* Environment: the clock, the caller                                      *)
(***************************************************************************)
Tick ==
    /\ now < MaxTicks
    /\ now' = now + 1
    /\ UNCHANGED <<connections, lock, pc, call, sent, multi, ia, last, asked>>
    /\ UNCHANGED <<local_files, remote_files>>

\* a caller registers a tunnel handle in the tunnels dict of a connection
OpenTunnel(id, tunnel_id) ==
    /\ id \in PoolIds
    /\ tunnel_id \notin connections[id].tunnels
    /\ connections' = [connections EXCEPT ![id].tunnels = @ \cup {tunnel_id}]
    /\ UNCHANGED <<lock, now, pc, call, sent, multi, ia, last, asked>>
    /\ UNCHANGED <<local_files, remote_files>>

(***************************************************************************)
(* Specification of the pool: two threads create, disconnect, look up and  *)
(* shut down concurrently; one of them also probes                         *)
(***************************************************************************)
Init ==
    /\ connections = <<>>
    /\ lock = Free
    /\ now = 0
    /\ pc = [t \in Threads |-> "idle"]
    /\ call = [t \in Threads |-> NoCall]
    /\ sent = [t \in Threads |-> <<>>]
    /\ multi = [t \in Threads |-> NoMulti]
    /\ ia = [t \in Threads |-> NoIa]
    /\ last = NoLast
    /\ asked = 0
    /\ local_files = <<>>
    /\ remote_files = <<>>

Next ==
    \/ \E t \in Threads, h \in Hosts, p \in Ports, u \in Users,
          c \in Credentials : CreateBegin(t, h, p, u, c)
    \/ \E t \in Threads, f \in CloseFailures : CreateSweep(t, f)
    \/ \E t \in Threads, x \in Uuids, o \in ConnectOutcomes : CreateConnect(t, x, o)
    \/ \E t \in Threads, id \in ConnectionIds : DisconnectBegin(t, id)
    \/ \E t \in Threads, f \in CloseFailures : DisconnectClose(t, f)
    \/ \E t \in Threads : CleanupAllBegin(t)
    \/ \E t \in Threads, f \in CloseFailures : CleanupAllStep(t, f)
    \/ \E t \in Threads, id \in ConnectionIds : GetConnection(t, id)
    \/ \E t \in Others, id \in ConnectionIds : TestConnectionBegin(t, id)
    \/ \E t \in Threads, o \in ProbeOutcomes : ProbeCheck(t, o)
    \/ Tick

Spec == Init /\ [][Next]_vars

(***************************************************************************)
(* Specification of the executor: one pooled session; a caller thread runs *)
(* execute, execute_multi and the probe on it while another thread may     *)
(* disconnect it                                                           *)
(***************************************************************************)
\* the session the executor scenarios start with
Session1 == ConnectionId(1, "h1", "u1")

\* a history of n earlier commands
EarlierHistory(n) == [i \in 1..n |-> "ls"]

CommandLists == UNION {[1..n -> Commands] : n \in 0..MaxCommands}

\* the pool after one successful create and n executed commands
InitSession(n) ==
    /\ connections = DictSet(<<>>, Session1,
                             [SSHConnection("h1", 22, "u1", 0) EXCEPT
                                 !.command_history = EarlierHistory(n)])
    /\ lock = Free
    /\ now = 0
    /\ pc = [t \in Threads |-> "idle"]
    /\ call = [t \in Threads |-> NoCall]
    /\ sent = [t \in Threads |-> <<>>]
    /\ multi = [t \in Threads |-> NoMulti]
    /\ ia = [t \in Threads |-> NoIa]
    /\ last = NoLast
    /\ asked = 0
    /\ local_files = <<>>
    /\ remote_files = <<>>

InitExec == InitSession(0)

NextExec ==
    \/ \E t \in Callers, c \in Commands : ExecuteBegin(t, Session1, c)
    \/ \E t \in Callers, cs \in CommandLists, b \in BOOLEAN :
          ExecuteMultiBegin(t, Session1, cs, b)
    \/ \E t \in Threads : ExecuteMultiNext(t)
    \/ \E t \in Others : TestConnectionBegin(t, Session1)
    \/ \E t \in Threads : ProbeLookup(t)
    \/ \E t \in Threads, o \in ProbeOutcomes : ProbeCheck(t, o)
    \/ \E t \in Threads, o \in ExecOutcomes : ExecRun(t, o)
    \/ \E n \in TunnelIds : OpenTunnel(Session1, n)
    \/ \E t \in Others : DisconnectBegin(t, Session1)
    \/ \E t \in Threads, f \in CloseFailures : DisconnectClose(t, f)

SpecExec == InitExec /\ [][NextExec]_vars

(***************************************************************************)
(* Specification of the interactive executor: one pooled session with a    *)
(* short or an almost full history; the caller runs execute and            *)
(* execute_interactive on it, the remote side writes to the shell channel, *)
(* the clock may pass the deadline                                         *)
(***************************************************************************)
InitInteractive == InitSession(0) \/ InitSession(HistoryCap - 1)

NextInteractive ==
    \/ \E t \in Callers, c \in Commands : ExecuteBegin(t, Session1, c)
    \/ \E t \in Callers, c \in Commands, ps \in PromptLists, n \in 0..MaxPrompts :
          ExecuteInteractiveBegin(t, Session1, c, ps, ResponseList(n))
    \/ \E t \in Threads : ProbeLookup(t)
    \/ \E t \in Threads, o \in ProbeOutcomes : ProbeCheck(t, o)
    \/ \E t \in Threads, o \in ExecOutcomes : ExecRun(t, o)
    \/ \E t \in Threads, o \in {"ok", "raise_shell", "raise_send"} : InteractiveOpen(t, o)
    \/ \E t \in Threads, n \in 0..MaxOutput, o \in {"ok", "raise"} : InteractivePoll(t, n, o)
    \/ \E t \in Threads, o \in {"ok", "raise"} : InteractiveDrain(t, o)
    \/ \E t \in Threads, ch \in Chars : RemoteEmit(t, ch)
    \/ \E t \in Threads : DeadlinePasses(t)

SpecInteractive == InitInteractive /\ [][NextInteractive]_vars

(***************************************************************************)
(* Properties                                                              *)
(***************************************************************************)
\* the error kinds of the taxonomy, as the exceptions that carry them
IsCapacityExceeded(r) ==
    /\ r.status = "error"
    /\ r.exc = "SSHConnectionError"
    /\ r.msg = "Maximum number of connections reached"

IsConnectionInactive(r) ==
    /\ r.status = "error"
    /\ r.exc = "SSHConnectionError"
    /\ r.msg = "is not active"

IsCommandTimeout(r) ==
    /\ r.status = "error"
    /\ r.exc = "SSHTimeoutError"

\* _parse_private_key, lines 668-672
IsInvalidCredential(r) ==
    /\ r.status = "error"
    /\ r.exc = "SSHAuthenticationError"
    /\ r.msg = "Invalid private key format"

IsAuthenticationFailed(r) ==
    /\ r.status = "error"
    /\ r.exc = "SSHAuthenticationError"
    /\ r.msg = "Authentication failed"

IsConnectionFailed(r) ==
    /\ r.status = "error"
    /\ r.exc = "SSHConnectionError"
    /\ r.msg \in {"SSH connection failed", "Network error connecting",
                  "Unexpected error connecting"}

IsArgumentMismatch(r) ==
    /\ r.status = "error"
    /\ r.exc = "SSHCommandError"
    /\ r.msg = "Number of expect prompts must match number of responses"

\* C1: in every reachable state of the concurrent pool the number of pooled
\* sessions is at most max_connections.
C1_PoolBounded == Cardinality(PoolIds) <= max_connections

\* a successful create has just filled the last free slot of the pool
C1_Witness ==
    /\ Cardinality(PoolIds) = max_connections
    /\ last.call.op = "create"
    /\ last.ret.status = "ok"

\* C2: the id a successful create returns was not in the pool just before
\* the call, and a lookup of it right afterwards finds the new session with
\* the host, port and username given to create.
C2_FreshId ==
    (last.call.op = "create" /\ last.ret.status = "ok") =>
        /\ last.ret.value \notin last.call.pool_before
        /\ Lookup(connections, last.ret.value) =
              [found |-> TRUE, host |-> last.call.host, port |-> last.call.port,
               username |-> last.call.username]

\* C3: once disconnect(id) has returned, whatever the state of id was
\* before, a lookup of id reports not-found.
C3_DisconnectThenNotFound ==
    last.call.op = "disconnect" => ~Lookup(connections, last.call.id).found

\* disconnect has returned for an id that was pooled
C3_Witness ==
    /\ last.call.op = "disconnect"
    /\ last.ret.value = TRUE
    /\ last.ret.fields.closes # <<>>

\* C4: a disconnect of a pooled id during which a close call raised has
\* still removed the entry, and returns to its caller without an exception.
C4_RemovedDespiteRaise ==
    (last.call.op = "disconnect" /\ last.ret.fields.raised # "none") =>
        /\ last.ret.status = "ok"
        /\ last.call.id \notin PoolIds

\* the SFTP close raised during the disconnect of a session with a tunnel
C4_Witness ==
    /\ last.call.op = "disconnect"
    /\ last.ret.fields.raised = "sftp"
    /\ last.ret.fields.closes = <<"tunnel", "sftp">>

\* created within the last hour, used within the last 30 minutes, connected
C5_Fresh(conn) ==
    /\ Seconds(now) - Seconds(conn.created_at) <= MaxAgeSeconds
    /\ Seconds(now) - Seconds(conn.last_used) <= MaxIdleSeconds
    /\ conn.is_connected

\* thread t calls create_connection in this step
C5_CreateCalled(t) ==
    /\ pc[t] = "idle"
    /\ \/ pc'[t] \in {"create_sweep", "create_connect"}
       \/ /\ pc'[t] = "idle"
          /\ last' # last
          /\ last'.thread = t
          /\ last'.call.op = "create"

\* C5: a create called while the pool holds max_connections sessions of
\* which none is evictable fails with CapacityExceeded and leaves the pool
\* unchanged.
C5_FullPoolRefuses ==
    [][\A t \in Threads :
          (/\ C5_CreateCalled(t)
           /\ Cardinality(PoolIds) = max_connections
           /\ \A i \in PoolIds : C5_Fresh(connections[i]))
          => (/\ pc'[t] = "idle"
              /\ last'.thread = t
              /\ last'.call.op = "create"
              /\ IsCapacityExceeded(last'.ret)
              /\ connections' = connections)]_vars

\* a create was refused on a full pool of fresh sessions
C5_Witness ==
    /\ last.call.op = "create"
    /\ IsCapacityExceeded(last.ret)
    /\ Cardinality(PoolIds) = max_connections
    /\ \A i \in PoolIds : C5_Fresh(connections[i])

\* the history entry the completed call c recorded
C6_Recorded(c) ==
    IF c.op = "execute_interactive" THEN "INTERACTIVE: " \o c.cmd ELSE c.cmd

\* C6: after any sequence of execute and execute_interactive calls the
\* history of a session has at most 100 entries and its last entry is the
\* command recorded most recently.
C6_HistoryBounded ==
    (\A t \in Threads : pc[t] = "idle") =>
        /\ \A i \in PoolIds : Len(connections[i].command_history) <= HistoryCap
        /\ (/\ last.call.op \in {"execute", "execute_interactive"}
            /\ last.ret.status = "ok"
            /\ last.call.id \in PoolIds)
           => /\ connections[last.call.id].command_history # <<>>
              /\ connections[last.call.id].command_history[
                    Len(connections[last.call.id].command_history)] = C6_Recorded(last.call)

\* the call wrote its command (or a response) to the remote side
C7_CommandSent(snt) ==
    \E j \in 1..Len(snt) : snt[j].kind \in {"exec", "shell", "response"}

\* the probe of call c ran and did not pass: the id was gone, the transport
\* was inactive, the echo answered something else, or an exception was raised
C7_ProbeFailed(c) == c.probe \notin {"none", "echo_ok"}

\* the call of thread t as it is after the step
C7_CallAfter(t) == IF pc'[t] = "idle" THEN last'.call ELSE call'[t]

C7_Histories == [i \in PoolIds |-> connections[i].command_history]

\* C7: execute and execute_interactive have a passed probe behind them
\* whenever they have written a command; a call whose probe fails ends with
\* ConnectionInactive, has sent no command and leaves every history as it
\* was.
C7_ProbeBeforeCommand ==
    /\ [](\A t \in Threads :
            (call[t].op \in {"execute", "execute_interactive"} /\ C7_CommandSent(sent[t]))
            => call[t].probe = "echo_ok")
    /\ [][\A t \in Threads :
            (/\ call[t].op \in {"execute", "execute_interactive"}
             /\ pc[t] \in {"probe_lookup", "probe_check"}
             /\ pc'[t] # pc[t]
             /\ C7_ProbeFailed(C7_CallAfter(t)))
            => (/\ pc'[t] = "idle"
                /\ last'.thread = t
                /\ IsConnectionInactive(last'.ret)
                /\ ~C7_CommandSent(last'.sent)
                /\ C7_Histories' = C7_Histories)]_vars

\* an interactive command was refused because the echo answered wrongly
C7_Witness ==
    /\ last.call.op = "execute_interactive"
    /\ last.call.probe = "echo_wrong"
    /\ IsConnectionInactive(last.ret)
    /\ ~C7_CommandSent(last.sent)

\* the per-command entries of the text execute_multi returns
C8_Reports(response) == SelectSeq(response, LAMBDA e : e.kind # "stopping")

C8_Failed(e) == e.kind = "failed" \/ ~e.success

\* the commands execute_multi handed to exec_command, in order
C8_Issued(snt) ==
    LET execs == SelectSeq(snt, LAMBDA e : e.kind = "exec")
    IN [j \in 1..Len(execs) |-> execs[j].text]

\* execute_multi with stop_on_error has returned and one command failed
C8_StoppedCall ==
    /\ last.call.op = "execute_multi"
    /\ last.multi.stop_on_error
    /\ \E j \in 1..Len(C8_Reports(last.multi.response)) :
          C8_Failed(C8_Reports(last.multi.response)[j])

\* the index of the first command that failed
C8_FirstFailure ==
    LET reports == C8_Reports(last.multi.response)
    IN CHOOSE k \in 1..Len(reports) :
          /\ C8_Failed(reports[k])
          /\ \A j \in 1..(k - 1) : ~C8_Failed(reports[j])

\* commands 1..k, or 1..k-1 when the k-th failed before it was written, are
\* the only ones issued
C8_IssuedOnlyUpTo(k) ==
    C8_Issued(last.sent) \in {SubSeq(last.multi.commands, 1, k),
                              SubSeq(last.multi.commands, 1, k - 1)}

\* C8 as stated: with stop_on_error, when the k-th command is the first to
\* fail, commands 1..k only are issued and exactly k results are returned.
C8_KResults ==
    C8_StoppedCall =>
        /\ C8_IssuedOnlyUpTo(C8_FirstFailure)
        /\ Len(last.multi.results) = C8_FirstFailure
        /\ Len(SelectSeq(last.multi.response, LAMBDA e : e.kind = "result"))
              = C8_FirstFailure

\* C8 amended: with stop_on_error, when the k-th command is the first to
\* fail, commands 1..k only are issued and the response reports exactly k
\* commands, in order: k results when the k-th failed by its exit status,
\* k-1 results and one failure marker when the k-th execute raised.
C8_KReports ==
    C8_StoppedCall =>
        LET k == C8_FirstFailure
            reports == C8_Reports(last.multi.response)
        IN /\ C8_IssuedOnlyUpTo(k)
           /\ Len(reports) = k
           /\ \A j \in 1..k : /\ reports[j].i = j
                              /\ reports[j].command = last.multi.commands[j]
           /\ Len(last.multi.results) =
                 (IF reports[k].kind = "result" THEN k ELSE k - 1)
           /\ \A j \in 1..Len(last.multi.results) :
                 last.multi.results[j].command = last.multi.commands[j]

\* three commands were given, the second raised, the third was not run
C8_Witness ==
    /\ C8_StoppedCall
    /\ Len(last.multi.commands) = 3
    /\ C8_FirstFailure = 2
    /\ C8_Reports(last.multi.response)[2].kind = "failed"
    /\ Len(last.multi.results) = 1

\* C9: an interactive command whose deadline expires before the awaited
\* prompt is matched fails with the CommandTimeout error kind.
C9_TimeoutKind ==
    (last.call.op = "execute_interactive" /\ last.ia.timed_out) =>
        IsCommandTimeout(last.ret)

\* what the call wrote to the shell channel
C10_Written(snt) == SelectSeq(snt, LAMBDA e : e.kind \in {"shell", "response"})

\* the command first, then responses 1..m in list order, each only after
\* its prompt occurs in the accumulated output
C10_InOrder(c, snt, v) ==
    LET written == C10_Written(snt)
        m == Len(written) - 1
    IN written # <<>> =>
          /\ written[1] = [kind |-> "shell", text |-> c.cmd]
          /\ m <= Len(c.responses)
          /\ \A j \in 1..m :
                /\ written[j + 1] = [kind |-> "response", text |-> c.responses[j]]
                /\ Contains(v.output, c.expect_prompts[j])

\* C10: execute_interactive sends the command first and then the responses
\* in list order, response i once, after responses 1..i-1 and only when
\* prompt i occurs in the accumulated output.
C10_ResponsesFollowPrompts ==
    /\ \A t \in Threads :
          call[t].op = "execute_interactive" => C10_InOrder(call[t], sent[t], ia[t])
    /\ last.call.op = "execute_interactive" => C10_InOrder(last.call, last.sent, last.ia)

\* an interactive command with two prompts completed, both responses sent
C10_Witness ==
    /\ last.call.op = "execute_interactive"
    /\ last.ret.status = "ok"
    /\ Len(last.call.expect_prompts) = 2
    /\ Len(C10_Written(last.sent)) = 3

\* an execute_interactive call whose two lists differ in length
C11_Mismatched(c) ==
    /\ c.op = "execute_interactive"
    /\ Len(c.expect_prompts) # Len(c.responses)

\* no shell channel was opened and the command was not written
C11_NothingOpened(snt, v) ==
    /\ v.channel = "none"
    /\ \A j \in 1..Len(snt) : snt[j].kind \notin {"shell", "response"}

\* while a mismatched call runs and when it returns, no channel is open, no
\* command is written and every history stays as it is
C11_NoEffect ==
    /\ [](/\ \A t \in Threads :
              C11_Mismatched(call[t]) =>
                  /\ pc[t] \notin {"ia_open", "ia_wait", "ia_drain"}
                  /\ C11_NothingOpened(sent[t], ia[t])
          /\ C11_Mismatched(last.call) =>
                  /\ last.ret.status = "error"
                  /\ C11_NothingOpened(last.sent, last.ia))
    /\ [][\A t \in Threads :
            C11_Mismatched(C7_CallAfter(t)) => C7_Histories' = C7_Histories]_vars

\* C11 as stated: execute_interactive with lists of different lengths fails
\* with ArgumentMismatch, opens no channel, sends no command and leaves the
\* history unchanged.
C11_AlwaysArgumentMismatch ==
    /\ [](C11_Mismatched(last.call) => IsArgumentMismatch(last.ret))
    /\ C11_NoEffect

\* C11 amended: the lookup and the probe come first.  A mismatched call on a
\* session whose probe passes fails with ArgumentMismatch, one whose probe
\* fails with ConnectionInactive; in both cases no channel is opened, no
\* command is sent and the history is unchanged.
C11_MismatchAfterProbe ==
    /\ [](C11_Mismatched(last.call) =>
             IF last.call.probe = "echo_ok"
             THEN IsArgumentMismatch(last.ret)
             ELSE IsConnectionInactive(last.ret))
    /\ C11_NoEffect

\* a call with one prompt and no response was refused after a passed probe
C11_Witness ==
    /\ C11_Mismatched(last.call)
    /\ Len(last.call.expect_prompts) = 1
    /\ last.call.probe = "echo_ok"
    /\ IsArgumentMismatch(last.ret)

\* C12: whenever test_connection on a pooled session has returned False, the
\* is_connected flag of the session is False.
C12_FailedProbeMarks ==
    (/\ last.call.op = "test_connection"
     /\ last.call.pref = "pooled"
     /\ last.call.id \in PoolIds
     /\ last.ret.value = FALSE)
    => ~connections[last.call.id].is_connected

\* C13: test_connection never raises, and it returns True exactly when the
\* lookup found the id in the pool, the transport was active and the echo
\* answered the token; in every other case it returns False.
C13_ProbeTrueIff ==
    last.call.op = "test_connection" =>
        /\ last.ret.status = "ok"
        /\ last.ret.value \in BOOLEAN
        /\ last.ret.value = (last.call.pref # "none" /\ last.call.probe = "echo_ok")

\* a probe of a pooled session answered the token and returned True
C13_Witness ==
    /\ last.call.op = "test_connection"
    /\ last.call.pref = "pooled"
    /\ last.call.probe = "echo_ok"
    /\ last.ret.value = TRUE

\* an execute call of thread t returns in this step
C14_ExecuteReturns(t) ==
    /\ call[t].op = "execute"
    /\ pc[t] # "idle"
    /\ pc'[t] = "idle"
    /\ last'.thread = t

\* C14: an execute that completes returns a CommandResult with the command
\* given, an exit code and success = (exit_code = 0), and has appended the
\* command as the last history entry of its session, whatever the exit code;
\* an execute that ends with an error leaves every history as it was.
C14_ResultAndHistory ==
    /\ []((last.call.op = "execute" /\ last.ret.status = "ok") =>
             /\ last.ret.value.command = last.call.cmd
             /\ last.ret.value.exit_code \in {0, 1}
             /\ last.ret.value.success = (last.ret.value.exit_code = 0))
    /\ [][\A t \in Threads :
            C14_ExecuteReturns(t) =>
                IF last'.ret.status = "ok"
                THEN call[t].id \in PoolIds =>
                        LET before == connections[call[t].id].command_history
                            after == connections'[call[t].id].command_history
                        IN /\ after # <<>>
                           /\ after[Len(after)] = call[t].cmd
                           /\ Len(after) = Len(before) + 1
                           /\ SubSeq(after, 1, Len(before)) = before
                ELSE C7_Histories' = C7_Histories]_vars

\* a command that exited with status 1 was recorded in the history
C14_Witness ==
    /\ last.call.op = "execute"
    /\ last.ret.status = "ok"
    /\ last.ret.value.exit_code = 1
    /\ ~last.ret.value.success
    /\ last.call.id \in PoolIds
    /\ connections[last.call.id].command_history # <<>>
    /\ connections[last.call.id].command_history[
           Len(connections[last.call.id].command_history)] = last.call.cmd

\* the sweep of thread t disconnects one collected session in this step
C15_SweepStep(t) ==
    /\ pc[t] = "create_sweep"
    /\ \/ pc'[t] # "create_sweep"
       \/ call'[t].todo # call[t].todo

\* what is left to disconnect after the step
C15_TodoAfter(t) == IF pc'[t] = "idle" THEN last'.call.todo ELSE call'[t].todo

\* C15: the sweep collects exactly the sessions older than an hour, unused
\* for more than 30 minutes or not connected; each of its steps removes one
\* collected session, whether or not a close raised, and leaves every other
\* session in the pool as it was; it ends when none is left to remove.
C15_SweepRemovesExactly ==
    /\ [](\A t \in Threads :
             pc[t] = "create_sweep" =>
                 /\ call[t].todo # {}
                 /\ call[t].todo \subseteq PoolIds \cap call[t].swept)
    /\ [][\A t \in Threads :
            /\ (pc[t] = "idle" /\ pc'[t] = "create_sweep") =>
                   /\ call'[t].swept = {i \in PoolIds : ~C5_Fresh(connections[i])}
                   /\ call'[t].todo = call'[t].swept
                   /\ connections' = connections
            /\ C15_SweepStep(t) =>
                   /\ \E i \in call[t].todo :
                         /\ DOMAIN connections' = PoolIds \ {i}
                         /\ C15_TodoAfter(t) = call[t].todo \ {i}
                   /\ \A j \in DOMAIN connections' : connections'[j] = connections[j]
                   /\ pc'[t] # "create_sweep" => C15_TodoAfter(t) = {}]_vars

\* the sweep has removed a session and kept a fresh one
C15_Witness ==
    \E t \in Threads :
        /\ pc[t] = "create_connect"
        /\ call[t].swept # {}
        /\ PoolIds # {}
        /\ PoolIds \cap call[t].swept = {}
        /\ \A i \in PoolIds : C5_Fresh(connections[i])

\* C16: a create whose private key no key format parses fails with
\* InvalidCredential, not with ConnectionFailed, and leaves the pool as it
\* was.
C16_BadKeyKind ==
    (last.call.op = "create" /\ last.call.connect = "bad_key") =>
        /\ IsInvalidCredential(last.ret)
        /\ ~IsConnectionFailed(last.ret)
        /\ PoolIds = last.call.pool_before

\* C17: a create the remote host rejects fails with AuthenticationFailed
\* carrying the username and the kind of credential given, and adds no
\* session to the pool.
C17_AuthenticationFailed ==
    (last.call.op = "create" /\ last.call.connect = "auth") =>
        /\ IsAuthenticationFailed(last.ret)
        /\ last.ret.fields.username = last.call.username
        /\ last.call.cred.password /\ ~last.call.cred.private_key
              => last.ret.fields.auth_method = "password"
        /\ last.call.cred.private_key /\ ~last.call.cred.password
              => last.ret.fields.auth_method = "key"
        /\ PoolIds = last.call.pool_before

\* a create with a private key was rejected by the host
C17_Witness ==
    /\ last.call.op = "create"
    /\ last.call.connect = "auth"
    /\ last.call.cred.private_key
    /\ last.ret.fields.auth_method = "key"

\* a create that failed while connecting, authenticating or opening SFTP
C18_FailedCreate ==
    /\ last.call.op = "create"
    /\ last.call.connect \in {"ssh", "socket", "auth", "sftp"}

\* a transport-level failure is reported as ConnectionFailed with host and
\* port
C18_Reported ==
    (C18_FailedCreate /\ last.call.connect \in {"ssh", "socket"}) =>
        /\ IsConnectionFailed(last.ret)
        /\ last.ret.fields.host = last.call.host
        /\ last.ret.fields.port = last.call.port

\* C18 as stated: every failed create leaves the pool exactly as it was
\* before the call.
C18_PoolAsBeforeCall ==
    /\ C18_Reported
    /\ C18_FailedCreate =>
          /\ last.ret.status = "error"
          /\ PoolIds = last.call.pool_before \cup last.call.swept

\* the connect step of a create of thread t fails in this step
C18_ConnectFails(t) ==
    /\ pc[t] = "create_connect"
    /\ pc'[t] = "idle"
    /\ last'.thread = t
    /\ last'.ret.status = "error"

\* C18 amended: a failed create adds no session to the pool.  The pool is as
\* it was before the call without the sessions the eviction sweep removed
\* when the call found the pool at capacity; the failing connect itself
\* changes nothing.
C18_NoSessionAdded ==
    /\ [](/\ C18_Reported
          /\ C18_FailedCreate =>
                /\ last.ret.status = "error"
                /\ PoolIds = last.call.pool_before
                /\ PoolIds \cap last.call.swept = {})
    /\ [][\A t \in Threads : C18_ConnectFails(t) => connections' = connections]_vars

\* opening SFTP failed in a create that had swept the full pool before
C18_Witness ==
    /\ C18_FailedCreate
    /\ last.call.connect = "sftp"
    /\ last.call.swept # {}
    /\ PoolIds # {}
    /\ PoolIds = last.call.pool_before

\* how often close call c occurs in the sequence closes
C19_Count(closes, c) == Cardinality({j \in 1..Len(closes) : closes[j] = c})

\* C19: when cleanup_all_connections has returned the pool is empty,
\* whichever close calls raised; it has disconnected every session that was
\* pooled, and for each session whose closes all succeeded the SFTP channel
\* and the client were closed exactly once.
C19_ShutdownEmptiesPool ==
    last.call.op = "cleanup_all" =>
        /\ last.ret.status = "ok"
        /\ PoolIds = {}
        /\ DOMAIN last.call.closed = last.call.pool_before
        /\ \A i \in last.call.pool_before :
              last.call.closed[i].raised \in {"none", "tunnel"} =>
                  /\ C19_Count(last.call.closed[i].closes, "sftp") = 1
                  /\ C19_Count(last.call.closed[i].closes, "client") = 1

\* shutdown of two sessions: the closes of one succeeded, the client close of
\* the other raised
C19_Witness ==
    /\ last.call.op = "cleanup_all"
    /\ Cardinality(last.call.pool_before) = 2
    /\ \E i, j \in last.call.pool_before :
          /\ last.call.closed[i].raised = "none"
          /\ last.call.closed[j].raised = "client"
    /\ PoolIds = {}

\* thread t calls disconnect for an id that is not pooled, in this step
C20_DisconnectUnknown(t) ==
    /\ pc[t] = "idle"
    /\ last' # last
    /\ last'.thread = t
    /\ last'.call.op = "disconnect"
    /\ last'.call.id \notin PoolIds

\* C20: disconnect of an id that is not pooled returns False without
\* raising, closes nothing and leaves the pool and every session as they
\* were, so that a repetition meets the same state and gives the same
\* result.
C20_UnknownIdNoOp ==
    [][\A t \in Threads :
          C20_DisconnectUnknown(t) =>
              /\ pc'[t] = "idle"
              /\ last'.ret.status = "ok"
              /\ last'.ret.value = FALSE
              /\ last'.ret.fields.closes = <<>>
              /\ connections' = connections
              /\ lock' = lock]_vars

\* disconnect of an unknown id returned False while a session was pooled
C20_Witness ==
    /\ last.call.op = "disconnect"
    /\ last.call.id \notin PoolIds
    /\ last.ret.value = FALSE
    /\ last.ret.fields.closes = <<>>
    /\ PoolIds # {}

(***************************************************************************)
(* Specification of the race: two pooled sessions; the caller thread runs  *)
(* execute on either of them while the other thread disconnects the first  *)
(* one or creates a connection, whose sweep evicts the sessions a failed   *)
(* probe has marked                                                        *)
(***************************************************************************)
Session2 == ConnectionId(2, "h1", "u1")

InitRace ==
    /\ connections = DictSet(DictSet(<<>>, Session1, SSHConnection("h1", 22, "u1", 0)),
                             Session2, SSHConnection("h1", 22, "u1", 0))
    /\ lock = Free
    /\ now = 0
    /\ pc = [t \in Threads |-> "idle"]
    /\ call = [t \in Threads |-> NoCall]
    /\ sent = [t \in Threads |-> <<>>]
    /\ multi = [t \in Threads |-> NoMulti]
    /\ ia = [t \in Threads |-> NoIa]
    /\ last = NoLast
    /\ asked = 0
    /\ local_files = <<>>
    /\ remote_files = <<>>

NextRace ==
    \/ \E t \in Callers, id \in {Session1, Session2} : ExecuteBegin(t, id, "ls")
    \/ \E t \in Threads : ProbeLookup(t)
    \/ \E t \in Threads, o \in ProbeOutcomes : ProbeCheck(t, o)
    \/ \E t \in Threads, o \in ExecOutcomes : ExecRun(t, o)
    \/ \E t \in Others : DisconnectBegin(t, Session1)
    \/ \E t \in Threads, f \in CloseFailures : DisconnectClose(t, f)
    \/ \E t \in Others, c \in Credentials : CreateBegin(t, "h1", 22, "u1", c)
    \/ \E t \in Threads, f \in CloseFailures : CreateSweep(t, f)
    \/ \E t \in Threads, x \in Uuids, o \in ConnectOutcomes : CreateConnect(t, x, o)

SpecRace == InitRace /\ [][NextRace]_vars

\* the exception classes of exceptions.py the manager raises
SSHBaseErrors == {"SSHConnectionError", "SSHAuthenticationError",
                  "SSHCommandError", "SSHFileOperationError", "SSHTimeoutError"}

\* r is an exception of the taxonomy
IsTaggedError(r) == r.status = "error" /\ r.exc \in SSHBaseErrors

\* r is a CommandResult
IsCommandResult(r) ==
    /\ r.status = "ok"
    /\ DOMAIN r.value = {"command", "stdout", "exit_code", "success"}

\* thread t is inside execute_command, past the lookup
C21_InFlight(t) ==
    /\ call[t].op = "execute"
    /\ pc[t] \in {"probe_lookup", "probe_check", "exec_run"}

\* thread t takes a step of an execute whose session another thread has
\* removed from the pool since the lookup
C21_RacedStep(t) ==
    /\ C21_InFlight(t)
    /\ call[t].ref = "detached"
    /\ pc'[t] # pc[t]

\* C21: an execute whose session is disconnected or evicted by another
\* thread while it is in flight ends with a CommandResult or an exception of
\* the taxonomy; none of its steps puts an id back into the pool, changes
\* another session or takes the manager's lock, and the thread is ready for
\* its next call afterwards; an execute on a session that stayed pooled and
\* passed its probe is not refused.
C21_ExecuteSurvivesRemoval ==
    /\ [][\A t \in Threads :
            C21_RacedStep(t) =>
                /\ DOMAIN connections' = PoolIds
                /\ \A j \in PoolIds \ {call[t].id} : connections'[j] = connections[j]
                /\ lock' = lock
                /\ pc'[t] = "idle" =>
                       /\ last'.thread = t
                       /\ IsCommandResult(last'.ret) \/ IsTaggedError(last'.ret)]_vars
    /\ []((/\ last.call.op = "execute"
            /\ last.call.ref = "pooled"
            /\ last.call.probe = "echo_ok") => last.ret.exc # "SSHConnectionError")

\* the execute ran its command on the closed client of an evicted session
\* and reported the transport error, the other session is still pooled
C21_Witness ==
    /\ last.call.op = "execute"
    /\ last.call.id = Session1
    /\ last.call.ref = "detached"
    /\ last.call.probe = "echo_ok"
    /\ last.ret.status = "error"
    /\ last.ret.exc = "SSHCommandError"
    /\ Session1 \notin PoolIds
    /\ Session2 \in PoolIds
    /\ lock = Free
    /\ \A t \in Threads : pc[t] = "idle"

\* thread t is inside the close-and-remove steps of disconnect, called by
\* its caller, by the sweep or by cleanup_all_connections
C22_Closing(t) == pc[t] \in {"disconnect_close", "create_sweep", "cleanup_all"}

\* the id thread t closes and removes next
C22_Target(t) ==
    IF pc[t] = "disconnect_close" THEN call[t].id ELSE NextTodo(call[t].todo)

\* a disconnect call of thread t begins and returns in this step
C22_ReturnsAtOnce(t) ==
    /\ pc[t] = "idle"
    /\ pc'[t] = "idle"
    /\ last' # last
    /\ last'.thread = t
    /\ last'.call.op = "disconnect"

\* C22: disconnect, the sweep and cleanup_all_connections close and remove
\* under the manager's lock: at most one thread is inside these steps, the
\* session it closes is pooled until the step that closes it removes it, so
\* no session is closed by two calls; a disconnect that finds the id absent
\* closes nothing and returns False.
C22_OneCloser ==
    /\ [](\A t, u \in Threads : (C22_Closing(t) /\ C22_Closing(u)) => t = u)
    /\ [](\A t \in Threads :
             C22_Closing(t) => /\ lock.owner = t
                               /\ C22_Target(t) \in PoolIds)
    /\ [][\A t \in Threads :
            /\ (C22_Closing(t) /\ DOMAIN connections' # PoolIds) =>
                   /\ DOMAIN connections' = PoolIds \ {C22_Target(t)}
                   /\ \A u \in Threads \ {t} : pc'[u] = pc[u] /\ ~C22_Closing(u)
            /\ (pc[t] = "disconnect_close" /\ pc'[t] = "idle") =>
                   /\ last'.ret.fields.closes # <<>>
                   /\ call[t].id \notin DOMAIN connections'
            /\ C22_ReturnsAtOnce(t) =>
                   /\ last'.call.id \notin PoolIds
                   /\ last'.ret.value = FALSE
                   /\ last'.ret.fields.closes = <<>>
                   /\ connections' = connections]_vars

\* one thread is closing a pooled session under the lock while the other
\* thread cannot enter disconnect
C22_Witness ==
    \E t \in Threads :
        /\ pc[t] = "disconnect_close"
        /\ call[t].id \in PoolIds
        /\ lock.owner = t
        /\ \A u \in Threads \ {t} : pc[u] = "idle" /\ ~CanAcquire(u)

(***************************************************************************)
(* File systems.  A path is the sequence of its components; a file system  *)
(* maps the paths that exist to their kind, size and permission bits; the  *)
(* root <<>> always exists.                                                *)
(***************************************************************************)
\* the names of the entries of a directory tree
Names == {"a", "b"}

\* the orders in which a directory enumeration yields the names
NameOrders == {<<"a", "b">>, <<"b", "a">>}

FileSizes == 1..MaxSize

\* permission bits of the local files, and of what SFTP or open() creates
LocalMode == "600"

DefaultMode == "644"

DirEntry == [kind |-> "dir", size |-> 0, mode |-> DefaultMode]

FileEntry(size, mode) == [kind |-> "file", size |-> size, mode |-> mode]

Parent(p) == SubSeq(p, 1, Len(p) - 1)

IsPrefix(p, q) == Len(p) <= Len(q) /\ SubSeq(q, 1, Len(p)) = p

\* Path.exists / a stat that succeeds
Exists(fs, p) == p = <<>> \/ p \in DOMAIN fs

\* Path.is_dir / S_ISDIR
IsDir(fs, p) == p = <<>> \/ (p \in DOMAIN fs /\ fs[p].kind = "dir")

\* Path.is_file / S_ISREG
IsFile(fs, p) == p \in DOMAIN fs /\ fs[p].kind = "file"

\* the entries of directory p that an enumeration in the order ord yields
Listing(fs, p, ord) == SelectSeq(ord, LAMBDA n : (p \o <<n>>) \in DOMAIN fs)

\* the tree below root, with paths relative to root
Rel(fs, root) ==
    [q \in {SubSeq(x, Len(root) + 1, Len(x)) : x \in {y \in DOMAIN fs : IsPrefix(root, y)}}
        |-> fs[root \o q]]

\* the tree T placed at root
Graft(T, root) ==
    [x \in {root \o q : q \in DOMAIN T} |-> T[SubSeq(x, Len(root) + 1, Len(x))]]

TreePaths == UNION {[1..n -> Names] : n \in 0..MaxDepth}

TreeEntries == {DirEntry} \cup {FileEntry(z, LocalMode) : z \in FileSizes}

\* every entry but the root lies in a directory
WellFormedTree(T) ==
    /\ <<>> \in DOMAIN T
    /\ \A q \in DOMAIN T : q # <<>> => (Parent(q) \in DOMAIN T /\ T[Parent(q)].kind = "dir")

\* a regular file, or a directory of regular files and sub-directories
Trees ==
    {T \in UNION {[S -> TreeEntries] :
                     S \in {X \in SUBSET TreePaths : Cardinality(X) <= MaxEntries + 1}} :
        WellFormedTree(T)}

(***************************************************************************)
(* The file operations a transfer performs, in order.  An operation is     *)
(* mkdir (sftp.mkdir), put (sftp.put), chmod (sftp.chmod), stat            *)
(* (sftp.stat), listdir (sftp.listdir_attr), makedirs (Path.mkdir with     *)
(* parents=True, exist_ok=True) or get (sftp.get); path is the path on the *)
(* destination side, but for stat and listdir, which only read the source. *)
(***************************************************************************)
FileOp(op, path, size, mode) == [op |-> op, path |-> path, size |-> size, mode |-> mode]

\* the recursion putting the files of a directory before creating it
RECURSIVE UploadDirectoryRecursive_MkdirLast(_, _, _, _, _)
UploadDirectoryRecursive_MkdirLast(L, local_dir, remote_dir, preserve_permissions, ord) ==
    LET item(n) ==
            LET local_path == local_dir \o <<n>>
                remote_path == remote_dir \o <<n>>
            IN IF IsFile(L, local_path)
               THEN <<FileOp("put", remote_path, L[local_path].size, "")>> \o
                    (IF preserve_permissions
                     THEN <<FileOp("chmod", remote_path, 0, L[local_path].mode)>>
                     ELSE <<>>)
               ELSE IF IsDir(L, local_path)
               THEN UploadDirectoryRecursive_MkdirLast(L, local_path, remote_path,
                                                       preserve_permissions, ord)
               ELSE <<>>
        items == Listing(L, local_dir, ord)
        loop[i \in 0..Len(items)] ==
            IF i = 0 THEN <<>> ELSE loop[i - 1] \o item(items[i])
    IN loop[Len(items)] \o <<FileOp("mkdir", remote_dir, 0, "")>>

\* _upload_directory_recursive: create the remote directory, then put every
\* file and recurse into every directory that iterdir() yields
RECURSIVE UploadDirectoryRecursive(_, _, _, _, _)
UploadDirectoryRecursive(L, local_dir, remote_dir, preserve_permissions, ord) ==
    LET item(n) ==
            LET local_path == local_dir \o <<n>>
                remote_path == remote_dir \o <<n>>
            IN IF IsFile(L, local_path)
               THEN <<FileOp("put", remote_path, L[local_path].size, "")>> \o
                    (IF preserve_permissions
                     THEN <<FileOp("chmod", remote_path, 0, L[local_path].mode)>>
                     ELSE <<>>)
               ELSE IF IsDir(L, local_path)
               THEN UploadDirectoryRecursive(L, local_path, remote_path,
                                             preserve_permissions, ord)
               ELSE <<>>
        items == Listing(L, local_dir, ord)
        loop[i \in 0..Len(items)] ==
            IF i = 0 THEN <<>> ELSE loop[i - 1] \o item(items[i])
    IN <<FileOp("mkdir", remote_dir, 0, "")>> \o loop[Len(items)]

\* the download that copies the regular files of a directory and does not
\* descend into its sub-directories
DownloadDirectoryRecursive_FilesOnly(R, remote_dir, local_dir, ord) ==
    LET item(n) ==
            LET remote_path == remote_dir \o <<n>>
                local_file_path == local_dir \o <<n>>
            IN IF IsFile(R, remote_path)
               THEN <<FileOp("get", local_file_path, R[remote_path].size, "")>>
               ELSE <<>>
        items == Listing(R, remote_dir, ord)
        loop[i \in 0..Len(items)] ==
            IF i = 0 THEN <<>> ELSE loop[i - 1] \o item(items[i])
    IN <<FileOp("makedirs", local_dir, 0, ""), FileOp("listdir", remote_dir, 0, "")>>
       \o loop[Len(items)]

\* _download_directory_recursive: create the local directory, list the
\* remote one, get every regular file and recurse into every directory
RECURSIVE DownloadDirectoryRecursive(_, _, _, _)
DownloadDirectoryRecursive(R, remote_dir, local_dir, ord) ==
    LET item(n) ==
            LET remote_path == remote_dir \o <<n>>
                local_file_path == local_dir \o <<n>>
            IN IF IsFile(R, remote_path)
               THEN <<FileOp("get", local_file_path, R[remote_path].size, "")>>
               ELSE IF IsDir(R, remote_path)
               THEN DownloadDirectoryRecursive(R, remote_path, local_file_path, ord)
               ELSE <<>>
        items == Listing(R, remote_dir, ord)
        loop[i \in 0..Len(items)] ==
            IF i = 0 THEN <<>> ELSE loop[i - 1] \o item(items[i])
    IN <<FileOp("makedirs", local_dir, 0, ""), FileOp("listdir", remote_dir, 0, "")>>
       \o loop[Len(items)]

\* the prefixes of path p, p included, the root excluded
Prefixes(p) == {SubSeq(p, 1, n) : n \in 1..Len(p)}

\* what one operation does to the file system it writes to: whether it
\* succeeds, and the file system afterwards
ApplyFileOp(fs, o) ==
    CASE o.op = "mkdir" ->
            [ok |-> ~Exists(fs, o.path) /\ IsDir(fs, Parent(o.path)),
             files |-> DictSet(fs, o.path, DirEntry)]
      [] o.op \in {"put", "get"} ->
            [ok |-> o.path # <<>> /\ IsDir(fs, Parent(o.path)) /\ ~IsDir(fs, o.path),
             files |-> DictSet(fs, o.path, FileEntry(o.size, DefaultMode))]
      [] o.op = "chmod" ->
            [ok |-> o.path \in DOMAIN fs,
             files |-> IF o.path \in DOMAIN fs
                       THEN [fs EXCEPT ![o.path].mode = o.mode] ELSE fs]
      [] o.op = "makedirs" ->
            [ok |-> \A q \in Prefixes(o.path) : ~IsFile(fs, q),
             files |-> [q \in DOMAIN fs \cup Prefixes(o.path) |->
                           IF q \in DOMAIN fs THEN fs[q] ELSE DirEntry]]
      [] o.op \in {"stat", "listdir"} ->
            [ok |-> TRUE, files |-> fs]

\* one operation added to a run; injected: the transport raises in it.  A
\* raising sftp.mkdir is passed over (lines 683-686), any other raising
\* operation ends the run
RunFileOp(before, o, injected) ==
    LET r == ApplyFileOp(before.files, o)
        ok == r.ok /\ ~injected
    IN [files |-> IF ok THEN r.files ELSE before.files,
        trace |-> Append(before.trace, [op |-> o.op, path |-> o.path, ok |-> ok]),
        raised |-> ~ok /\ o.op # "mkdir"]

RECURSIVE RunFileOpsFrom(_, _, _, _)
RunFileOpsFrom(before, ops, i, fail_at) ==
    IF i > Len(ops) \/ before.raised THEN before
    ELSE RunFileOpsFrom(RunFileOp(before, ops[i], i = fail_at), ops, i + 1, fail_at)

\* the operations run in order on the file system fs; the operation with
\* index fail_at raises for a reason of the transport.  Result: the file
\* system, the operations attempted, whether one raised
RunFileOps(fs, ops, fail_at) ==
    RunFileOpsFrom([files |-> fs, trace |-> <<>>, raised |-> FALSE], ops, 1, fail_at)

\* why a run of file operations ended early: the transport raised
\* (paramiko.SFTPError), the local parent directory of a file to write is
\* missing (FileNotFoundError), or another OSError
FailureCause(run, fail_at) ==
    LET o == run.trace[Len(run.trace)]
    IN IF Len(run.trace) = fail_at THEN "sftp"
       ELSE IF o.op = "get" /\ ~Exists(run.files, Parent(o.path)) THEN "enoent"
       ELSE "other"

(***************************************************************************)
(* upload_file                                                             *)
(***************************************************************************)
\* an upload whose recursion creates a directory after filling it
UploadFileOps_MkdirLast(L, local_path, remote_path, recursive, preserve_permissions, ord) ==
    IF IsFile(L, local_path)
    THEN <<FileOp("put", remote_path, L[local_path].size, "")>> \o
         (IF preserve_permissions
          THEN <<FileOp("chmod", remote_path, 0, L[local_path].mode)>>
          ELSE <<>>)
    ELSE IF IsDir(L, local_path) /\ recursive
    THEN UploadDirectoryRecursive_MkdirLast(L, local_path, remote_path,
                                            preserve_permissions, ord)
    ELSE <<>>

\* lines 427-452: the SFTP operations of one upload
UploadFileOps(L, local_path, remote_path, recursive, preserve_permissions, ord) ==
    IF IsFile(L, local_path)
    THEN <<FileOp("put", remote_path, L[local_path].size, "")>> \o
         (IF preserve_permissions
          THEN <<FileOp("chmod", remote_path, 0, L[local_path].mode)>>
          ELSE <<>>)
    ELSE IF IsDir(L, local_path) /\ recursive
    THEN UploadDirectoryRecursive(L, local_path, remote_path, preserve_permissions, ord)
    ELSE <<>>

\* lines 420-424
LocalPathNotFound(local_path) ==
    Raised("SSHFileOperationError", "Local path does not exist",
           [local_path |-> local_path, operation |-> "upload"])

\* lines 454-469: the two handlers of upload_file; cause is what they caught
UploadError(local_path, remote_path, cause) ==
    Raised("SSHFileOperationError",
           IF cause = "sftp" THEN "SFTP error uploading" ELSE "Error uploading",
           [local_path |-> local_path, remote_path |-> remote_path,
            operation |-> "upload", error |-> cause])

\* a failed lookup answered with False
NoSftpConnection_ReturnsFalse == Returned(FALSE)

\* lines 415, 481, 540, 595
NoSftpConnection == Raised("SSHConnectionError", "not found or SFTP not available", <<>>)

\* upload_file.  local_stat is what the stat of Path.exists() does: it
\* answers, or it fails with an OSError other than ENOENT, ENOTDIR, EBADF and
\* ELOOP (a name that is too long, a directory that may not be searched),
\* which Path.exists() raises again; line 419 is outside the try block
UploadFile(t, id, local_path, remote_path, recursive, preserve_permissions, ord, local_stat, fail_at) ==
    /\ pc[t] = "idle"
    /\ CanAcquire(t)
    /\ connections' = Touch(connections, id, now)
    /\ LET c == [NoCall EXCEPT !.op = "upload", !.id = id,
                               !.local_path = local_path,
                               !.remote_path = remote_path,
                               !.recursive = recursive,
                               !.preserve_permissions = preserve_permissions,
                               !.fresh = ~Exists(remote_files, remote_path)]
           calls == [call EXCEPT ![t] = c]
           ops == UploadFileOps(local_files, local_path, remote_path, recursive,
                                preserve_permissions, ord)
           run == RunFileOps(remote_files, ops, fail_at)
           done(r, files, trace) ==
               /\ remote_files' = files
               /\ CompleteWith(t, calls, r, trace, multi[t], ia[t])
       IN IF id \notin PoolIds
          THEN fail_at = 0 /\ local_stat = "ok" /\ done(NoSftpConnection, remote_files, <<>>)
          ELSE IF local_stat = "oserror"
          THEN fail_at = 0 /\ done(Raised("OSError", "", <<>>), remote_files, <<>>)
          ELSE IF ~Exists(local_files, local_path)
          THEN fail_at = 0 /\ done(LocalPathNotFound(local_path), remote_files, <<>>)
          ELSE IF ops = <<>>
          \* lines 448-452: raised inside the try block, caught by the last
          \* handler and raised again as the error of lines 463-469
          THEN fail_at = 0 /\ done(UploadError(local_path, remote_path, "not_recursive"),
                                   remote_files, <<>>)
          ELSE /\ fail_at <= Len(ops)
               /\ done(IF run.raised
                       THEN UploadError(local_path, remote_path,
                                        FailureCause(run, fail_at))
                       ELSE Returned(TRUE),
                       run.files, run.trace)
    /\ UNCHANGED <<lock, now, asked, local_files>>

(***************************************************************************)
(* download_file                                                           *)
(***************************************************************************)
\* a download whose recursion leaves the sub-directories out
DownloadFileOps_FilesOnly(R, remote_path, local_path, recursive, ord) ==
    IF IsFile(R, remote_path)
    THEN <<FileOp("stat", remote_path, 0, ""),
           FileOp("get", local_path, R[remote_path].size, "")>>
    ELSE IF IsDir(R, remote_path) /\ recursive
    THEN <<FileOp("stat", remote_path, 0, "")>> \o
         DownloadDirectoryRecursive_FilesOnly(R, remote_path, local_path, ord)
    ELSE <<FileOp("stat", remote_path, 0, "")>>

\* lines 485-506: the file operations of one download
DownloadFileOps(R, remote_path, local_path, recursive, ord) ==
    IF IsFile(R, remote_path)
    THEN <<FileOp("stat", remote_path, 0, ""),
           FileOp("get", local_path, R[remote_path].size, "")>>
    ELSE IF IsDir(R, remote_path) /\ recursive
    THEN <<FileOp("stat", remote_path, 0, "")>> \o
         DownloadDirectoryRecursive(R, remote_path, local_path, ord)
    ELSE <<FileOp("stat", remote_path, 0, "")>>

\* lines 509-513
RemotePathNotFound(remote_path) ==
    Raised("SSHFileOperationError", "Remote path does not exist",
           [remote_path |-> remote_path, operation |-> "download"])

\* lines 508-529: the three handlers of download_file
DownloadError(remote_path, local_path, cause) ==
    IF cause = "enoent" THEN RemotePathNotFound(remote_path)
    ELSE Raised("SSHFileOperationError",
                IF cause = "sftp" THEN "SFTP error downloading"
                ELSE "Error downloading",
                [local_path |-> local_path, remote_path |-> remote_path,
                 operation |-> "download", error |-> cause])

DownloadFile(t, id, remote_path, local_path, recursive, ord, fail_at) ==
    /\ pc[t] = "idle"
    /\ CanAcquire(t)
    /\ connections' = Touch(connections, id, now)
    /\ LET c == [NoCall EXCEPT !.op = "download", !.id = id,
                               !.local_path = local_path,
                               !.remote_path = remote_path,
                               !.recursive = recursive,
                               !.fresh = ~Exists(local_files, local_path)]
           calls == [call EXCEPT ![t] = c]
           ops == DownloadFileOps(remote_files, remote_path, local_path, recursive, ord)
           run == RunFileOps(local_files, ops, fail_at)
           done(r, files, trace) ==
               /\ local_files' = files
               /\ CompleteWith(t, calls, r, trace, multi[t], ia[t])
       IN IF id \notin PoolIds
          THEN fail_at = 0 /\ done(NoSftpConnection, local_files, <<>>)
          ELSE /\ fail_at <= Len(ops)
               /\ IF run.raised
                  THEN done(DownloadError(remote_path, local_path,
                                          FailureCause(run, fail_at)),
                            run.files, run.trace)
                  \* sftp.stat raises FileNotFoundError
                  ELSE IF ~Exists(remote_files, remote_path)
                  THEN done(RemotePathNotFound(remote_path), local_files, run.trace)
                  \* lines 502-506: raised inside the try block, caught by the
                  \* last handler and raised again as the error of lines 523-529
                  ELSE IF Len(ops) = 1
                  THEN done(DownloadError(remote_path, local_path, "not_recursive"),
                            local_files, run.trace)
                  ELSE done(Returned(TRUE), run.files, run.trace)
    /\ UNCHANGED <<lock, now, asked, remote_files>>

(***************************************************************************)
(* list_directory, file_exists                                             *)
(***************************************************************************)
\* the FileInfo of one entry (modified_time, owner and group left out)
FileInfo(name, path, size, is_directory, permissions) ==
    [name |-> name, path |-> path, size |-> size, is_directory |-> is_directory,
     permissions |-> permissions]

\* lines 545-574: the list built from listdir_attr or from listdir
DirectoryList(R, remote_path, detailed, ord) ==
    LET names == Listing(R, remote_path, ord)
    IN [i \in 1..Len(names) |->
           LET x == remote_path \o <<names[i]>>
           IN IF detailed
              THEN FileInfo(names[i], x, R[x].size, R[x].kind = "dir", R[x].mode)
              ELSE FileInfo(names[i], x, 0, FALSE, "000")]

\* lines 576-589
ListError(remote_path, cause) ==
    Raised("SSHFileOperationError",
           IF cause = "sftp" THEN "SFTP error listing directory"
           ELSE "Error listing directory",
           [remote_path |-> remote_path, operation |-> "list_directory",
            error |-> cause])

\* list_directory; sftp_raises: the transport fails during the listing
ListDirectory(t, id, remote_path, detailed, ord, sftp_raises) ==
    /\ pc[t] = "idle"
    /\ CanAcquire(t)
    /\ connections' = Touch(connections, id, now)
    /\ LET c == [NoCall EXCEPT !.op = "list_directory", !.id = id,
                               !.remote_path = remote_path]
           r == IF id \notin PoolIds THEN NoSftpConnection
                ELSE IF sftp_raises THEN ListError(remote_path, "sftp")
                ELSE IF ~IsDir(remote_files, remote_path)
                THEN ListError(remote_path, "other")
                ELSE Returned(DirectoryList(remote_files, remote_path, detailed, ord))
       IN Complete(t, [call EXCEPT ![t] = c], r)
    /\ UNCHANGED <<lock, now, asked, local_files, remote_files>>

\* what sftp.stat does in file_exists: it answers, or it raises for another
\* reason than a missing path
StatOutcomes == {"ok", "error"}

\* the predicate raising for a stat failure that is not a missing path
FileExistsResult_RaisesOnError(R, remote_path, stat) ==
    IF stat = "error" THEN Raised("SSHFileOperationError", "stat failed", <<>>)
    ELSE Returned(Exists(R, remote_path))

\* lines 597-603
FileExistsResult(R, remote_path, stat) ==
    IF stat = "error" THEN Returned(FALSE)
    ELSE Returned(Exists(R, remote_path))

FileExists(t, id, remote_path, stat) ==
    /\ pc[t] = "idle"
    /\ CanAcquire(t)
    /\ connections' = Touch(connections, id, now)
    /\ LET c == [NoCall EXCEPT !.op = "file_exists", !.id = id,
                               !.remote_path = remote_path, !.stat = stat]
           r == IF id \notin PoolIds THEN NoSftpConnection
                ELSE FileExistsResult(remote_files, remote_path, stat)
       IN Complete(t, [call EXCEPT ![t] = c], r)
    /\ UNCHANGED <<lock, now, asked, local_files, remote_files>>

(***************************************************************************)
(* Specification of the file operations: one pooled session; the local     *)
(* host holds a regular file or a directory tree at src, the remote host   *)
(* is empty; the caller uploads, downloads, lists and tests paths          *)
(***************************************************************************)
LocalSource == <<"src">>

LocalTarget == <<"out">>

RemoteTarget == <<"up">>

\* a path that exists on neither side
MissingPath == <<"gone">>

InitFiles ==
    /\ connections = DictSet(<<>>, Session1, SSHConnection("h1", 22, "u1", 0))
    /\ lock = Free
    /\ now = 0
    /\ pc = [t \in Threads |-> "idle"]
    /\ call = [t \in Threads |-> NoCall]
    /\ sent = [t \in Threads |-> <<>>]
    /\ multi = [t \in Threads |-> NoMulti]
    /\ ia = [t \in Threads |-> NoIa]
    /\ last = NoLast
    /\ asked = 0
    /\ local_files \in {Graft(T, LocalSource) : T \in Trees}
    /\ remote_files = <<>>

NextFiles ==
    \/ \E t \in Callers, recursive \in BOOLEAN, preserve_permissions \in BOOLEAN,
          ord \in NameOrders, fail_at \in 0..MaxFailAt :
          UploadFile(t, Session1, LocalSource, RemoteTarget, recursive,
                     preserve_permissions, ord, "ok", fail_at)
    \/ \E t \in Callers, id \in {Session1, Session2},
          local_path \in {LocalSource, MissingPath},
          local_stat \in {"ok", "oserror"} :
          /\ id = Session2 \/ local_path = MissingPath \/ local_stat = "oserror"
          /\ UploadFile(t, id, local_path, RemoteTarget, TRUE, TRUE, <<"a", "b">>,
                        local_stat, 0)
    \/ \E t \in Callers, recursive \in BOOLEAN, ord \in NameOrders,
          fail_at \in 0..MaxFailAt :
          DownloadFile(t, Session1, RemoteTarget, LocalTarget, recursive, ord, fail_at)
    \/ \E t \in Callers,
          a \in {<<Session1, MissingPath>>, <<Session2, RemoteTarget>>} :
          DownloadFile(t, a[1], a[2], LocalTarget, TRUE, <<"a", "b">>, 0)

SpecFiles == InitFiles /\ [][NextFiles]_vars

(***************************************************************************)
(* Specification of the remote file queries: one pooled session; the       *)
(* remote host holds nothing, a regular file or a directory tree at up;    *)
(* the caller lists directories and tests paths while another thread may   *)
(* disconnect the session                                                  *)
(***************************************************************************)
RemotePaths == {RemoteTarget, RemoteTarget \o <<"a">>, MissingPath}

InitRemote ==
    /\ connections = DictSet(<<>>, Session1, SSHConnection("h1", 22, "u1", 0))
    /\ lock = Free
    /\ now = 0
    /\ pc = [t \in Threads |-> "idle"]
    /\ call = [t \in Threads |-> NoCall]
    /\ sent = [t \in Threads |-> <<>>]
    /\ multi = [t \in Threads |-> NoMulti]
    /\ ia = [t \in Threads |-> NoIa]
    /\ last = NoLast
    /\ asked = 0
    /\ local_files = <<>>
    /\ remote_files \in {<<>>} \cup {Graft(T, RemoteTarget) : T \in Trees}

NextRemote ==
    \/ \E t \in Callers, remote_path \in RemotePaths, detailed \in BOOLEAN,
          ord \in NameOrders, sftp_raises \in BOOLEAN :
          ListDirectory(t, Session1, remote_path, detailed, ord, sftp_raises)
    \/ \E t \in Callers, remote_path \in RemotePaths, stat \in StatOutcomes :
          FileExists(t, Session1, remote_path, stat)
    \/ \E t \in Others : DisconnectBegin(t, Session1)
    \/ \E t \in Threads, f \in CloseFailures : DisconnectClose(t, f)

SpecRemote == InitRemote /\ [][NextRemote]_vars

\* r is what operation op returns when it does not raise
IsResultOf(op, r) ==
    /\ r.status = "ok"
    /\ CASE op = "create" -> r.value \in ConnectionIds
         [] op \in {"disconnect", "test_connection", "file_exists"} ->
                r.value \in BOOLEAN
         [] op \in {"execute", "execute_interactive"} -> IsCommandResult(r)
         [] op \in {"upload", "download"} -> r.value = TRUE
         [] op = "list_directory" ->
                \A i \in DOMAIN r.value :
                    DOMAIN r.value[i] = {"name", "path", "size", "is_directory",
                                         "permissions"}
         [] OTHER -> TRUE

\* C23: every call of create, disconnect, probe, execute, executeInteractive,
\* upload, download, listDirectory, fileExists and getSystemInfo ends with
\* the result of the operation or with an exception of the taxonomy; no
\* other exception reaches the caller.
C23_ResultOrTaggedError ==
    last.ret.status # "none" =>
        \/ IsResultOf(last.call.op, last.ret)
        \/ IsTaggedError(last.ret)

\* thread t calls file_exists in this step
C24_FileExistsCalled(t) ==
    /\ pc[t] = "idle"
    /\ last' # last
    /\ last'.thread = t
    /\ last'.call.op = "file_exists"

\* C24: file_exists on a pooled session returns True when the stat of the
\* remote path succeeds, and returns False when the path does not exist and
\* when the stat fails for another reason; it does not raise.
C24_FalseOnAnyStatFailure ==
    [][\A t \in Threads :
          (C24_FileExistsCalled(t) /\ last'.call.id \in PoolIds) =>
              /\ last'.ret.status = "ok"
              /\ last'.ret.value = (/\ last'.call.stat = "ok"
                                    /\ Exists(remote_files, last'.call.remote_path))
              /\ remote_files' = remote_files]_vars

\* the stat of a path that exists failed and file_exists returned False
C24_Witness ==
    /\ last.call.op = "file_exists"
    /\ last.call.id \in PoolIds
    /\ last.call.stat = "error"
    /\ last.call.remote_path \in DOMAIN remote_files
    /\ last.ret.status = "ok"
    /\ last.ret.value = FALSE

(***************************************************************************)
(* get_system_info                                                         *)
(***************************************************************************)
\* lines 607-618: the commands, the empty dict
GetSystemInfoBegin(t, id) ==
    /\ pc[t] = "idle"
    /\ asked = 0
    /\ asked' = Len(SystemInfoCommands)
    /\ pc' = [pc EXCEPT ![t] = "info_next"]
    /\ call' = [call EXCEPT ![t] = [NoCall EXCEPT !.op = "get_system_info", !.id = id]]
    /\ multi' = [multi EXCEPT ![t] = [NoMulti EXCEPT !.commands = SystemInfoCommands,
                                                     !.idx = 1]]
    /\ last' = NoLast
    /\ UNCHANGED <<connections, lock, now, sent, ia, local_files, remote_files>>

\* line 622: call execute_command for the next key
GetSystemInfoNext(t) ==
    /\ pc[t] = "info_next"
    /\ ExecLookup(t, [call[t] EXCEPT !.cmd = multi[t].commands[multi[t].idx]])
    /\ UNCHANGED <<asked, local_files, remote_files>>

(***************************************************************************)
(* Specification of the system information: one pooled session; the        *)
(* caller asks for the system information of the session or of an id that  *)
(* is not pooled; each command exits with status 0 or 1 or times out       *)
(***************************************************************************)
InitInfo == InitSession(0)

NextInfo ==
    \/ \E t \in Callers, id \in {Session1, Session2} : GetSystemInfoBegin(t, id)
    \/ \E t \in Threads : GetSystemInfoNext(t)
    \/ \E t \in Threads : ProbeLookup(t)
    \/ \E t \in Threads, o \in {"echo_ok", "echo_wrong"} : ProbeCheck(t, o)
    \/ \E t \in Threads, o \in {"exit0", "exit1", "timeout"} : ExecRun(t, o)

SpecInfo == InitInfo /\ [][NextInfo]_vars

\* C25: get_system_info never raises: it returns a mapping with exactly the
\* eight keys; all eight commands are run, in order, whatever the earlier
\* ones did; the key of a command that raised or exited non-zero is "N/A",
\* the key of a command that succeeded is its output
C25_Done == last.call.op = "get_system_info" /\ last.ret.status # "none"

C25_SystemInfoTotal ==
    C25_Done =>
        /\ last.ret.status = "ok"
        /\ DOMAIN last.ret.value = {SystemInfoKeys[i] : i \in 1..8}
        /\ Len(last.multi.results) = 8
        /\ \A i \in 1..8 :
              LET r == last.multi.results[i]
                  v == last.ret.value[SystemInfoKeys[i]]
              IN IF r.status = "error"
                 THEN v = "N/A"
                 ELSE /\ r.value.command = SystemInfoCommands[i]
                      /\ v = IF r.value.exit_code = 0 THEN r.value.stdout ELSE "N/A"

\* a battery whose first command timed out, whose second exited with
\* status 1 and whose last succeeded
C25_Witness ==
    /\ C25_Done
    /\ last.call.id = Session1
    /\ last.multi.results[1].status = "error"
    /\ last.multi.results[1].exc = "SSHTimeoutError"
    /\ last.multi.results[2].status = "ok"
    /\ last.multi.results[2].value.exit_code = 1
    /\ last.multi.results[8].status = "ok"
    /\ last.multi.results[8].value.exit_code = 0
    /\ last.ret.value["hostname"] = "N/A"
    /\ last.ret.value["cpu"] = <<>>

\* C26: execute_multi without stop_on_error calls execute_command for each
\* of its N commands once, in list order: the i-th call starts when the
\* first i-1 commands have each returned or raised and been reported, it
\* hands nothing but the i-th command to the remote side, and the handler
\* returns only after the N-th, whichever commands failed
C26_InLoop(t) ==
    /\ pc[t] # "idle"
    /\ call[t].op = "execute_multi"
    /\ ~multi[t].stop_on_error

\* reports are those of commands 1..n, in order
C26_InOrder(m, n) ==
    LET reports == C8_Reports(m.response)
    IN /\ Len(reports) = n
       /\ m.response = reports
       /\ \A j \in 1..n : reports[j].i = j /\ reports[j].command = m.commands[j]

C26_AllInOrder ==
    /\ [](\A t \in Threads :
            C26_InLoop(t) =>
                /\ multi[t].idx \in 1..Len(multi[t].commands)
                /\ C26_InOrder(multi[t], multi[t].idx - 1)
                /\ pc[t] # "multi_next" => call[t].cmd = multi[t].commands[multi[t].idx])
    /\ [][\A t \in Threads :
            C26_InLoop(t) =>
                /\ sent'[t] # sent[t] /\ pc'[t] # "idle" =>
                      /\ Len(sent'[t]) = Len(sent[t]) + 1
                      /\ SubSeq(sent'[t], 1, Len(sent[t])) = sent[t]
                      /\ sent'[t][Len(sent'[t])].kind = "exec" =>
                            sent'[t][Len(sent'[t])].text = multi[t].commands[multi[t].idx]
                /\ pc'[t] # "idle" =>
                      /\ multi'[t].commands = multi[t].commands
                      /\ multi'[t].idx \in {multi[t].idx, multi[t].idx + 1}
                      /\ multi'[t].idx # multi[t].idx => pc'[t] = "multi_next"
                /\ pc'[t] = "idle" =>
                      /\ multi[t].idx = Len(multi[t].commands)
                      /\ last'.thread = t
                      /\ last'.ret.status = "ok"
                      /\ last'.multi.commands = multi[t].commands
                      /\ C26_InOrder(last'.multi, Len(multi[t].commands))
                      /\ Len(C8_Issued(last'.sent)) <= Len(C8_Issued(sent[t])) + 1]_vars

\* three commands were asked for, the first raised, the second exited with
\* status 1, the third succeeded
C26_Witness ==
    /\ last.call.op = "execute_multi"
    /\ ~last.multi.stop_on_error
    /\ Len(last.multi.commands) = MaxCommands
    /\ last.multi.response[1].kind = "failed"
    /\ last.multi.response[2].kind = "result"
    /\ ~last.multi.response[2].success
    /\ last.multi.response[3].success
    /\ C8_Issued(last.sent) = SubSeq(last.multi.commands, 2, 3)

\* C27: a recursive upload of a local directory of regular files and
\* sub-directories to a remote path that did not exist, followed by a
\* recursive download of that remote path to a local path that did not
\* exist, leaves at the new local path the regular files of the source, at
\* the same relative paths and with the same sizes
C27_Files(T) == {q \in DOMAIN T : T[q].kind = "file"}

C27_SameFiles(A, B) ==
    /\ C27_Files(A) = C27_Files(B)
    /\ \A q \in C27_Files(A) : A[q].size = B[q].size

C27_Uploaded ==
    /\ last.call.op = "upload"
    /\ last.ret = Returned(TRUE)
    /\ last.call.recursive
    /\ last.call.fresh
    /\ IsDir(local_files, last.call.local_path)

C27_RoundTrip ==
    [][(/\ C27_Uploaded
        /\ last'.call.op = "download"
        /\ last'.ret = Returned(TRUE)
        /\ last'.call.recursive
        /\ last'.call.fresh
        /\ last'.call.remote_path = last.call.remote_path)
       => C27_SameFiles(Rel(local_files, last.call.local_path),
                        Rel(local_files', last'.call.local_path))]_vars

\* a source directory with a file in a sub-directory has made the round trip
C27_Witness ==
    /\ last.call.op = "download"
    /\ last.ret = Returned(TRUE)
    /\ last.call.recursive
    /\ last.call.fresh
    /\ IsFile(local_files, LocalSource \o <<"a", "b">>)
    /\ IsFile(remote_files, RemoteTarget \o <<"a", "b">>)
    /\ IsFile(local_files, LocalTarget \o <<"a", "b">>)
    /\ Rel(remote_files, RemoteTarget) = [q \in DOMAIN Rel(local_files, LocalSource) |->
            [Rel(local_files, LocalSource)[q] EXCEPT !.mode = DefaultMode]]

\* C28: upload and download test their source first: an upload of a local
\* path that does not exist fails with LocalPathNotFound, a download of a
\* remote path that does not exist with RemotePathNotFound, a transfer of
\* a directory without recursive with DirectoryRequiresRecursive, and in
\* these cases the destination side is left as it was
C28_IsLocalPathNotFound(r) ==
    /\ r.status = "error"
    /\ r.exc = "SSHFileOperationError"
    /\ r.msg = "Local path does not exist"

C28_IsRemotePathNotFound(r) ==
    /\ r.status = "error"
    /\ r.exc = "SSHFileOperationError"
    /\ r.msg = "Remote path does not exist"

C28_IsDirectoryRequiresRecursive(r) ==
    /\ r.status = "error"
    /\ r.exc = "SSHFileOperationError"
    /\ r.msg = "Path is a directory but recursive=False"

\* the call that ends in this step: a transfer on a pooled session whose
\* stat of the source was answered
C28_Transfer(op) ==
    /\ last' # last
    /\ last'.call.op = op
    /\ last'.call.id \in PoolIds
    /\ last'.ret.exc # "OSError"
    /\ \A j \in 1..Len(last'.sent) : last'.sent[j].op = "stat" => last'.sent[j].ok

C28_Untouched ==
    /\ local_files' = local_files
    /\ remote_files' = remote_files
    /\ \A j \in 1..Len(last'.sent) : last'.sent[j].op = "stat"

C28_MissingLocal ==
    (C28_Transfer("upload") /\ ~Exists(local_files, last'.call.local_path))
        => (C28_IsLocalPathNotFound(last'.ret) /\ C28_Untouched)

C28_MissingRemote ==
    (C28_Transfer("download") /\ ~Exists(remote_files, last'.call.remote_path))
        => (C28_IsRemotePathNotFound(last'.ret) /\ C28_Untouched)

C28_DirectoryWithoutRecursive ==
    (/\ ~last'.call.recursive
     /\ \/ C28_Transfer("upload") /\ IsDir(local_files, last'.call.local_path)
        \/ C28_Transfer("download") /\ IsDir(remote_files, last'.call.remote_path))
        => (C28_IsDirectoryRequiresRecursive(last'.ret) /\ C28_Untouched)

C28_ValidatesSource ==
    [][C28_MissingLocal /\ C28_MissingRemote /\ C28_DirectoryWithoutRecursive]_vars

\* the two parts of C28 about a source that does not exist
C28_MissingSource == [][C28_MissingLocal /\ C28_MissingRemote]_vars

\* what a transfer of a directory without recursive does: the error of the
\* last handler of the operation, the destination left as it was
C28_DirectoryGenericError ==
    [][(/\ ~last'.call.recursive
        /\ \/ C28_Transfer("upload") /\ IsDir(local_files, last'.call.local_path)
           \/ C28_Transfer("download") /\ IsDir(remote_files, last'.call.remote_path))
       => /\ last'.ret.exc = "SSHFileOperationError"
          /\ last'.ret.msg \in {"Error uploading", "Error downloading"}
          /\ last'.ret.fields.error = "not_recursive"
          /\ C28_Untouched]_vars

\* C29: in a recursive transfer of a directory, every file and every
\* sub-directory is written only after the creation of the destination
\* directory it goes into: in the order of the operations of the transfer,
\* the mkdir of the parent comes before the write of the entry
C29_Writes == {"mkdir", "makedirs", "put", "get", "chmod"}

C29_Target == IF last.call.op = "upload" THEN last.call.remote_path
              ELSE last.call.local_path

C29_RecursiveTransfer ==
    /\ last.call.op \in {"upload", "download"}
    /\ last.call.recursive
    /\ \E j \in 1..Len(last.sent) : last.sent[j].op \in {"mkdir", "makedirs"}

C29_ParentFirst ==
    C29_RecursiveTransfer =>
        \A j \in 1..Len(last.sent) :
            (last.sent[j].op \in C29_Writes /\ last.sent[j].path # C29_Target) =>
                \E i \in 1..(j - 1) :
                    /\ last.sent[i].op \in {"mkdir", "makedirs"}
                    /\ last.sent[i].path = Parent(last.sent[j].path)
                    /\ IsPrefix(C29_Target, last.sent[i].path)

\* an upload has created a directory, a sub-directory and a file in it
C29_Witness ==
    /\ C29_RecursiveTransfer
    /\ last.call.op = "upload"
    /\ last.ret = Returned(TRUE)
    /\ \E i, j, k \in 1..Len(last.sent) :
          /\ i < j /\ j < k
          /\ last.sent[i] = [op |-> "mkdir", path |-> RemoteTarget, ok |-> TRUE]
          /\ last.sent[j] = [op |-> "mkdir", path |-> RemoteTarget \o <<"a">>, ok |-> TRUE]
          /\ last.sent[k] = [op |-> "put", path |-> RemoteTarget \o <<"a", "b">>, ok |-> TRUE]

\* an execute_interactive call of thread t ends in this step
C30_InteractiveEnds(t) ==
    /\ call[t].op = "execute_interactive"
    /\ pc[t] # "idle"
    /\ pc'[t] = "idle"
    /\ last'.thread = t

\* C30: an execute_interactive that returns, returns a CommandResult with
\* the command given, exit code 0 and success = TRUE, whatever the remote
\* side wrote, and has appended to the history of its session one entry,
\* "INTERACTIVE: " followed by the command; it fails for the deadline only
\* when the deadline has passed; an execute_interactive that ends with an
\* error leaves every history as it was
C30_InteractiveResult ==
    [][\A t \in Threads :
          C30_InteractiveEnds(t) =>
              IF last'.ret.status = "ok"
              THEN /\ last'.ret.value.command = call[t].cmd
                   /\ last'.ret.value.exit_code = 0
                   /\ last'.ret.value.success
                   /\ call[t].id \in PoolIds =>
                         /\ connections'[call[t].id].command_history =
                               Append(connections[call[t].id].command_history,
                                      "INTERACTIVE: " \o call[t].cmd)
                         /\ \A j \in PoolIds \ {call[t].id} :
                               connections'[j].command_history =
                                   connections[j].command_history
              ELSE /\ C7_Histories' = C7_Histories
                   /\ last'.ia.timed_out => ia[t].expired]_vars

\* the remote side wrote characters, the prompt was answered and the call
\* returned with the command recorded
C30_Witness ==
    /\ last.call.op = "execute_interactive"
    /\ last.ret.status = "ok"
    /\ last.ret.value.success
    /\ last.ret.value.stdout # <<>>
    /\ last.call.expect_prompts # <<>>
    /\ last.call.id \in PoolIds
    /\ LET h == connections[last.call.id].command_history
       IN h # <<>> /\ h[Len(h)] = "INTERACTIVE: " \o last.call.cmd

(***************************************************************************)
(* Specification of the calls on an id: one pooled session, which another  *)
(* thread may disconnect, and an id that was never created; the caller     *)
(* runs the executors, the transfers and the remote file queries on both   *)
(***************************************************************************)
InitAbsent == InitSession(0)

NextAbsent ==
    \/ \E t \in Callers, id \in {Session1, Session2} : ExecuteBegin(t, id, "ls")
    \/ \E t \in Callers, id \in {Session1, Session2} :
          ExecuteInteractiveBegin(t, id, "ls", <<>>, <<>>)
    \/ \E t \in Callers, id \in {Session1, Session2} :
          UploadFile(t, id, MissingPath, RemoteTarget, TRUE, TRUE, <<"a", "b">>, "ok", 0)
    \/ \E t \in Callers, id \in {Session1, Session2} :
          DownloadFile(t, id, MissingPath, LocalTarget, TRUE, <<"a", "b">>, 0)
    \/ \E t \in Callers, id \in {Session1, Session2} :
          ListDirectory(t, id, <<>>, TRUE, <<"a", "b">>, FALSE)
    \/ \E t \in Callers, id \in {Session1, Session2} :
          FileExists(t, id, MissingPath, "ok")
    \/ \E t \in Threads : ProbeLookup(t)
    \/ \E t \in Threads, o \in {"echo_ok", "raise_exec"} : ProbeCheck(t, o)
    \/ \E t \in Threads, o \in {"exit0", "other_exc"} : ExecRun(t, o)
    \/ \E t \in Threads, o \in {"ok", "raise_shell"} : InteractiveOpen(t, o)
    \/ \E t \in Threads, o \in {"ok", "raise"} : InteractiveDrain(t, o)
    \/ \E t \in Others : DisconnectBegin(t, Session1)
    \/ \E t \in Threads, f \in {"none", "client"} : DisconnectClose(t, f)

SpecAbsent == InitAbsent /\ [][NextAbsent]_vars

\* C31: execute, execute_interactive, upload, download, list_directory and
\* file_exists called with an id that is not pooled raise SSHConnectionError
\* ("not found") at the lookup: nothing was sent to a host, no file system
\* was touched, the pool is as it was
C31_LookupOps == {"execute", "execute_interactive", "upload", "download",
                  "list_directory", "file_exists"}

\* thread t calls op with an id that is not pooled, in this step
C31_CalledOnAbsent(t, op) ==
    /\ pc[t] = "idle"
    /\ last' # last
    /\ last'.thread = t
    /\ last'.call.op = op
    /\ last'.call.id \notin PoolIds

C31_AbsentIdFails ==
    [][\A t \in Threads, op \in C31_LookupOps :
          C31_CalledOnAbsent(t, op) =>
              /\ last'.ret.status = "error"
              /\ last'.ret.exc = "SSHConnectionError"
              /\ last'.ret.msg \in {"not found", "not found or SFTP not available"}
              /\ last'.sent = <<>>
              /\ connections' = connections
              /\ local_files' = local_files
              /\ remote_files' = remote_files
              /\ pc'[t] = "idle"]_vars

\* file_exists was called on the session after it was disconnected
C31_Witness ==
    /\ last.call.op = "file_exists"
    /\ last.call.id = Session1
    /\ Session1 \notin PoolIds
    /\ last.ret.exc = "SSHConnectionError"
    /\ last.sent = <<>>

\* C32: execute_interactive does not time out waiting for a prompt that
\* already occurs in the output accumulated so far: the response to such a
\* prompt is sent without further output from the remote side
C32_TimedOutWaiting ==
    /\ last.call.op = "execute_interactive"
    /\ last.ret.status = "error"
    /\ last.ia.timed_out

C32_BufferedPromptAnswered ==
    C32_TimedOutWaiting =>
        ~Contains(last.ia.output, last.call.expect_prompts[last.ia.i])

\* C33: an execute_interactive call that opened a shell channel has closed
\* it when the call returns or raises
C33_ChannelClosed ==
    (/\ last.call.op = "execute_interactive"
     /\ last.ret.status # "none"
     /\ last.ia.channel # "none")
        => last.ia.channel = "closed"

\* what holds: the channel is closed when the call returns a result
C33_ClosedOnReturn ==
    (last.call.op = "execute_interactive" /\ last.ret.status = "ok")
        => last.ia.channel = "closed"

\* the disconnect of a pooled id by thread t returns in this step
C34_DisconnectReturns(t) ==
    /\ pc[t] = "disconnect_close"
    /\ pc'[t] = "idle"
    /\ last'.thread = t
    /\ last'.call.op = "disconnect"

\* the closes of a whole disconnect of connection conn
C34_EveryClose(conn) ==
    (IF conn.tunnels = {} THEN <<>> ELSE <<"tunnel">>) \o <<"sftp", "client">>

\* C34: when disconnect of a pooled id returns, it has attempted to close
\* the tunnels, then the SFTP channel, then the client, whichever of these
\* closes raised
C34_AllClosesAttempted ==
    [][\A t \in Threads :
          C34_DisconnectReturns(t) =>
              last'.ret.fields.closes = C34_EveryClose(connections[call[t].id])]_vars

\* what holds: the closes are attempted in this order up to the client
\* unless the close of the SFTP channel raises
C34_ClosesUnlessSftpRaises ==
    [][\A t \in Threads :
          C34_DisconnectReturns(t) =>
              IF last'.ret.fields.raised = "sftp"
              THEN last'.ret.fields.closes =
                       SubSeq(C34_EveryClose(connections[call[t].id]), 1,
                              Len(C34_EveryClose(connections[call[t].id])) - 1)
              ELSE last'.ret.fields.closes = C34_EveryClose(connections[call[t].id])]_vars

\* a disconnect call of thread t returns in this step
C35_DisconnectReturns(t) ==
    /\ pc[t] \in {"idle", "disconnect_close"}
    /\ pc'[t] = "idle"
    /\ last' # last
    /\ last'.thread = t
    /\ last'.call.op = "disconnect"

\* C35: disconnect returns False only for an id that was not
\* pooled, with nothing changed; a disconnect that removes a session
\* returns True
C35_FalseOnlyForUnknown ==
    [][\A t \in Threads :
          C35_DisconnectReturns(t) =>
              /\ last'.ret.value = FALSE =>
                    (last'.call.id \notin PoolIds /\ connections' = connections)
              /\ DOMAIN connections' # PoolIds => last'.ret.value = TRUE]_vars

\* what holds: disconnect returns False for an id that was not pooled, with
\* nothing changed, and also for a pooled id when the close of its SFTP
\* channel or of its client raised, in which case the session is removed
\* all the same; it returns True exactly when it removed the session and
\* neither of these closes raised
C35_FalseForUnknownOrFailedClose ==
    [][\A t \in Threads :
          C35_DisconnectReturns(t) =>
              /\ last'.ret.status = "ok"
              /\ IF last'.call.id \notin PoolIds
                 THEN last'.ret.value = FALSE /\ connections' = connections
                 ELSE /\ DOMAIN connections' = PoolIds \ {last'.call.id}
                      /\ last'.ret.value =
                            (last'.ret.fields.raised \notin {"sftp", "client"})]_vars

\* a disconnect whose client close raised has removed the session and
\* returned False
C35_Witness ==
    /\ last.call.op = "disconnect"
    /\ last.ret.value = FALSE
    /\ last.ret.fields.raised = "client"
    /\ last.ret.fields.closes # <<>>
    /\ last.call.id \notin PoolIds

\* the sessions of the pool that the sweep is to evict
C36_Evictable == {i \in PoolIds : ~C5_Fresh(connections[i])}

\* thread t calls create on a full pool with a session to evict, in this step
C36_CreateOnFullPool(t) ==
    /\ pc[t] = "idle"
    /\ \/ pc'[t] \in {"create_sweep", "create_connect"}
       \/ last' # last /\ last'.thread = t /\ last'.call.op = "create"
    /\ Cardinality(PoolIds) >= max_connections
    /\ C36_Evictable # {}

\* the connect of a create of thread t that has swept succeeds in this step
C36_ConnectSucceeds(t) ==
    /\ pc[t] = "create_connect"
    /\ call[t].swept # {}
    /\ pc'[t] = "idle"
    /\ last'.thread = t
    /\ last'.ret.status = "ok"

\* C36: a create on a full pool with at least one evictable session starts
\* the sweep for exactly the evictable sessions; the sweep removes them and
\* no other session; the connect starts when all of them are gone; if it
\* succeeds the new session is pooled under the id returned and every other
\* pooled session is as it was
C36_EvictThenAdd ==
    /\ [][\A t \in Threads :
            /\ C36_CreateOnFullPool(t) =>
                  /\ pc'[t] = "create_sweep"
                  /\ call'[t].swept = C36_Evictable
                  /\ connections' = connections
            /\ pc[t] = "create_sweep" =>
                  /\ PoolIds \ DOMAIN connections' \subseteq call[t].swept
                  /\ \A j \in DOMAIN connections' : j \in PoolIds
            /\ C36_ConnectSucceeds(t) =>
                  /\ last'.ret.value \in DOMAIN connections'
                  /\ DOMAIN connections' = PoolIds \cup {last'.ret.value}
                  /\ connections'[last'.ret.value].host = call[t].host
                  /\ connections'[last'.ret.value].username = call[t].username
                  /\ connections'[last'.ret.value].is_connected
                  /\ \A j \in PoolIds \ {last'.ret.value} :
                        connections'[j] = connections[j]]_vars
    /\ [](\A t \in Threads :
             (pc[t] = "create_connect" /\ call[t].swept # {}) =>
                 /\ PoolIds \cap call[t].swept = {}
                 /\ Cardinality(PoolIds) < max_connections)

\* a create has evicted one session of a full pool, kept the other and
\* added its own
C36_Witness ==
    /\ last.call.op = "create"
    /\ last.ret.status = "ok"
    /\ last.call.swept # {}
    /\ PoolIds \cap last.call.swept = {}
    /\ Cardinality(PoolIds) = max_connections
    /\ last.ret.value \in PoolIds
    /\ \E j \in PoolIds \ {last.ret.value} : C5_Fresh(connections[j])

(***************************************************************************)
(* Specification of the lock: two threads create, disconnect and shut      *)
(* down; probes mark sessions as not connected, which the sweep of a       *)
(* create on the full pool evicts.  A thread in the middle of a call takes *)
(* its next step as soon as it can: the connect and close calls return and *)
(* the scheduler runs every thread that is not waiting for the lock.       *)
(***************************************************************************)
LockCredential == [password |-> TRUE, private_key |-> FALSE]

NextLock ==
    \/ \E t \in Threads : CreateBegin(t, "h1", 22, "u1", LockCredential)
    \/ \E t \in Threads, f \in {"none", "client"} : CreateSweep(t, f)
    \/ \E t \in Threads, x \in Uuids, o \in {"ok", "ssh"} : CreateConnect(t, x, o)
    \/ \E t \in Threads, id \in ConnectionIds : DisconnectBegin(t, id)
    \/ \E t \in Threads, f \in {"none", "client"} : DisconnectClose(t, f)
    \/ \E t \in Threads : CleanupAllBegin(t)
    \/ \E t \in Threads, f \in {"none", "client"} : CleanupAllStep(t, f)
    \/ \E t \in Others, id \in ConnectionIds : TestConnectionBegin(t, id)
    \/ \E t \in Threads, o \in {"echo_ok", "raise_exec"} : ProbeCheck(t, o)

\* the steps of thread t inside a call
Running(t) ==
    \/ \E f \in {"none", "client"} : CreateSweep(t, f)
    \/ \E x \in Uuids, o \in {"ok", "ssh"} : CreateConnect(t, x, o)
    \/ \E f \in {"none", "client"} : DisconnectClose(t, f)
    \/ \E f \in {"none", "client"} : CleanupAllStep(t, f)
    \/ \E o \in {"echo_ok", "raise_exec"} : ProbeCheck(t, o)

SpecLock == Init /\ [][NextLock]_vars /\ \A t \in Threads : WF_vars(Running(t))

\* the positions at which a thread holds the lock
C37_Holding == {"create_sweep", "create_connect", "disconnect_close", "cleanup_all"}

\* C37: the lock is re-entrant: a create in its sweep and a shutdown, which
\* call disconnect with the lock held, go on to their end (each of them
\* returns or raises once its connect and close calls have returned); a
\* thread holds the lock exactly while it is inside create, disconnect or
\* shutdown, so the lock is released when the call returns or raises
C37_ReentrantLockReleased ==
    /\ \A t \in Threads :
          (pc[t] \in {"create_sweep", "create_connect", "cleanup_all"}) ~> (pc[t] = "idle")
    /\ [](\A t \in Threads :
             /\ pc[t] \in C37_Holding => lock = [owner |-> t, count |-> 1]
             /\ pc[t] \notin C37_Holding => lock.owner # t)
    /\ []((\A t \in Threads : pc[t] \notin C37_Holding) => lock = Free)

\* a create that swept the full pool has returned and the lock is free
C37_Witness ==
    /\ last.call.op = "create"
    /\ last.call.swept # {}
    /\ last.ret.status = "ok"
    /\ lock = Free
    /\ \A t \in Threads : pc[t] = "idle"

(***************************************************************************)
(* Specification of the calls during a create: one pooled session; one     *)
(* thread creates sessions while the other looks the session up, lists,    *)
(* executes, uploads, tests a path and disconnects                         *)
(***************************************************************************)
NextHold ==
    \/ \E t \in Others : CreateBegin(t, "h1", 22, "u1", LockCredential)
    \/ \E t \in Threads, f \in {"none", "client"} : CreateSweep(t, f)
    \/ \E t \in Threads, o \in {"ok", "auth", "sftp"} : CreateConnect(t, 2, o)
    \/ \E t \in Callers : ExecuteBegin(t, Session1, "ls")
    \/ \E t \in Threads : ProbeLookup(t)
    \/ \E t \in Threads, o \in {"echo_ok", "raise_exec"} : ProbeCheck(t, o)
    \/ \E t \in Threads : ExecRun(t, "exit0")
    \/ \E t \in Callers : GetConnection(t, Session1)
    \/ \E t \in Callers : ListConnections(t)
    \/ \E t \in Callers :
          UploadFile(t, Session1, MissingPath, RemoteTarget, TRUE, TRUE, <<"a", "b">>, "ok", 0)
    \/ \E t \in Callers : FileExists(t, Session1, MissingPath, "ok")
    \/ \E t \in Callers : DisconnectBegin(t, Session1)
    \/ \E t \in Threads, f \in {"none", "client"} : DisconnectClose(t, f)

SpecHold == InitSession(0) /\ [][NextHold]_vars

\* thread u is inside create_connection
C38_Creating(u) == pc[u] \in {"create_sweep", "create_connect"}

\* C38: a thread inside create holds the lock up to the return or the raise
\* of the call, the connect and the opening of SFTP included; meanwhile no
\* other thread starts or completes a create, a disconnect, a lookup, a
\* list, an execute or a transfer, and an execute that has not yet made the
\* lookup of its probe waits (one that has made it may end); only the
\* creating thread changes the pool ids
C38_LockHeldThroughCreate ==
    [][\A u \in Threads :
          C38_Creating(u) =>
              /\ lock.owner = u
              /\ pc'[u] # "idle" => lock'.owner = u
              /\ last' # last =>
                    \/ last'.thread = u
                    \/ /\ last'.call.op = "execute"
                       /\ pc[last'.thread] \in {"probe_check", "exec_run"}
              /\ DOMAIN connections' # PoolIds => pc'[u] # pc[u] \/ call'[u] # call[u]
              /\ \A t \in Threads \ {u} :
                    pc[t] \in {"idle", "probe_lookup"} =>
                        (pc'[t] = pc[t] /\ call'[t].op = call[t].op)]_vars

\* a create is connecting while the execute of the other thread waits for
\* the lock
C38_Witness ==
    \E u \in Threads, t \in Threads :
        /\ pc[u] = "create_connect"
        /\ lock.owner = u
        /\ pc[t] = "probe_lookup"
        /\ call[t].op = "execute"
        /\ ~CanAcquire(t)

(***************************************************************************)
(* get_command_history (server.py)                                         *)
(***************************************************************************)
\* the slice seq[start:] as Python computes it: a negative start counts
\* from the end, and the start is clamped to 0..len(seq)
SliceFrom(seq, start) ==
    LET n == Len(seq)
        s == IF start < 0
             THEN (IF start + n < 0 THEN 0 ELSE start + n)
             ELSE (IF start > n THEN n ELSE start)
    IN  SubSeq(seq, s + 1, n)

\* line 757: connection.command_history[-limit:]
RecentCommands(command_history, limit) == SliceFrom(command_history, 0 - limit)

\* a CallToolResult: the text that heads the response, the numbered lines
\* under it, the error flag
ToolResult(text, lines, isError) ==
    [text |-> text, count |-> Len(lines), lines |-> lines, isError |-> isError]

\* lines 749-770: the response for the pool conns
HistoryResponse(conns, id, limit) ==
    IF id \notin DOMAIN conns
    THEN ToolResult("Connection not found.", <<>>, TRUE)
    ELSE LET history == RecentCommands(conns[id].command_history, limit)
         IN  IF history = <<>>
             THEN ToolResult("No command history available.", <<>>, FALSE)
             ELSE ToolResult("Command History", history, FALSE)

\* _handle_get_command_history, lines 746-775: get_connection touches
\* last_used, the response lists the slice of the history
GetCommandHistory(t, id, limit) ==
    /\ pc[t] = "idle"
    /\ CanAcquire(t)
    /\ connections' = Touch(connections, id, now)
    /\ Complete(t, [call EXCEPT ![t] = [NoCall EXCEPT !.op = "get_command_history",
                                                      !.id = id, !.todo = {limit}]],
                Returned(HistoryResponse(connections, id, limit)))
    /\ UNCHANGED <<lock, now, asked, local_files, remote_files>>

(***************************************************************************)
(* Specification of the command history: one pooled session that has run   *)
(* up to MaxHistory commands; the caller runs further commands and asks    *)
(* for the history of the session or of an id that is not pooled           *)
(***************************************************************************)
Limits == 0..MaxLimit

Histories == UNION {[1..n -> Commands] : n \in 0..MaxHistory}

InitHistory ==
    /\ \E h \in Histories :
          connections = DictSet(<<>>, Session1,
                                [SSHConnection("h1", 22, "u1", 0) EXCEPT
                                    !.command_history = h])
    /\ lock = Free
    /\ now = 0
    /\ pc = [t \in Threads |-> "idle"]
    /\ call = [t \in Threads |-> NoCall]
    /\ sent = [t \in Threads |-> <<>>]
    /\ multi = [t \in Threads |-> NoMulti]
    /\ ia = [t \in Threads |-> NoIa]
    /\ last = NoLast
    /\ asked = 0
    /\ local_files = <<>>
    /\ remote_files = <<>>

NextHistory ==
    \/ \E t \in Callers, id \in {Session1, Session2}, n \in Limits :
          GetCommandHistory(t, id, n)
    \/ \E t \in Callers, c \in Commands : ExecuteBegin(t, Session1, c)
    \/ \E t \in Threads : ProbeLookup(t)
    \/ \E t \in Threads : ProbeCheck(t, "echo_ok")
    \/ \E t \in Threads, o \in {"exit0", "exit1"} : ExecRun(t, o)
    \/ Tick

SpecHistory == InitHistory /\ [][NextHistory]_vars

\* the limit of the call that completed last
C40_Limit == CHOOSE n \in last.call.todo : TRUE

C40_HistoryCalled ==
    /\ last # NoLast
    /\ last.call.op = "get_command_history"
    /\ last.call.id \in PoolIds

\* the n most recently recorded commands of history h, in insertion order
C40_MostRecent(h, n) == [i \in 1..n |-> h[Len(h) - n + i]]

C40_Min(a, b) == IF a < b THEN a ELSE b

\* C40: get_command_history on a pooled session returns at most limit
\* entries, namely the min(limit, history length) most recently recorded
\* commands in insertion order, for every limit >= 0, and leaves
\* command_history as it was
C40_LastLimitCommands ==
    [][\A t \in Callers, n \in Limits :
          (GetCommandHistory(t, Session1, n) /\ Session1 \in PoolIds) =>
             LET h == connections[Session1].command_history
             IN  /\ last'.ret.value.count <= n
                 /\ last'.ret.value.lines = C40_MostRecent(h, C40_Min(n, Len(h)))
                 /\ connections'[Session1].command_history = h]_vars

\* what holds: for every limit >= 1 the response lists the min(limit,
\* history length) most recent commands in order; for limit 0 it lists the
\* whole history; command_history is never modified
C40_LastLimitCommandsFromOne ==
    [][\A t \in Callers, n \in Limits :
          (GetCommandHistory(t, Session1, n) /\ Session1 \in PoolIds) =>
             LET h == connections[Session1].command_history
             IN  /\ n >= 1 => last'.ret.value.lines = C40_MostRecent(h, C40_Min(n, Len(h)))
                 /\ n = 0 => last'.ret.value.lines = h
                 /\ connections'[Session1].command_history = h]_vars

\* a call with limit 0 on a session with a history has completed
C40_ZeroLimitOnHistory ==
    /\ C40_HistoryCalled
    /\ C40_Limit = 0
    /\ connections[last.call.id].command_history # <<>>
    /\ last.ret.value.count > 0

(***************************************************************************)
(* Specification of the pool membership: one pooled session; one thread    *)
(* runs every operation that works on a session, the other creates,        *)
(* disconnects and shuts down; a test_connection may find the transport    *)
(* broken and the clock may pass the age and idle limits, so the session   *)
(* may be dead or stale while it is used                                   *)
(***************************************************************************)
NextFrame ==
    \/ \E t \in Callers : GetConnection(t, Session1)
    \/ \E t \in Callers : ListConnections(t)
    \/ \E t \in Callers : TestConnectionBegin(t, Session1)
    \/ \E t \in Callers : ExecuteBegin(t, Session1, "ls")
    \/ \E t \in Callers : ExecuteMultiBegin(t, Session1, <<"ls", "false">>, TRUE)
    \/ \E t \in Callers : ExecuteMultiNext(t)
    \/ \E t \in Callers : ExecuteInteractiveBegin(t, Session1, "ls", <<>>, <<>>)
    \/ \E t \in Callers : InteractiveOpen(t, "ok")
    \/ \E t \in Callers : InteractiveDrain(t, "ok")
    \/ \E t \in Callers :
          UploadFile(t, Session1, MissingPath, RemoteTarget, TRUE, TRUE, <<"a", "b">>, "ok", 0)
    \/ \E t \in Callers :
          DownloadFile(t, Session1, MissingPath, LocalTarget, TRUE, <<"a", "b">>, 0)
    \/ \E t \in Callers : ListDirectory(t, Session1, <<>>, TRUE, <<"a", "b">>, FALSE)
    \/ \E t \in Callers : FileExists(t, Session1, MissingPath, "ok")
    \/ \E t \in Callers : GetSystemInfoBegin(t, Session1)
    \/ \E t \in Callers : GetSystemInfoNext(t)
    \/ \E t \in Callers : GetCommandHistory(t, Session1, 1)
    \/ \E t \in Callers : ProbeLookup(t)
    \/ \E t \in Callers : ProbeCheck(t, "echo_ok")
    \/ \E t \in Callers : call[t].op = "test_connection" /\ ProbeCheck(t, "raise_exec")
    \/ \E t \in Callers : ExecRun(t, "exit0")
    \/ \E t \in Others : CreateBegin(t, "h1", 22, "u1", LockCredential)
    \/ \E t \in Others : CreateSweep(t, "none")
    \/ \E t \in Others, o \in {"ok", "auth"} : CreateConnect(t, 2, o)
    \/ \E t \in Others : DisconnectBegin(t, Session1)
    \/ \E t \in Others : DisconnectClose(t, "none")
    \/ \E t \in Others : CleanupAllBegin(t)
    \/ \E t \in Others : CleanupAllStep(t, "none")
    \/ Tick

SpecFrame == InitSession(0) /\ [][NextFrame]_vars

\* the operations that work on a session without managing the pool
C39_SessionOps ==
    {"get_connection", "list_connections", "test_connection", "execute",
     "execute_multi", "execute_interactive", "upload", "download",
     "list_directory", "file_exists", "get_system_info", "get_command_history"}

\* thread t takes a step of create_connection (its sweep included),
\* disconnect or cleanup_all_connections
C39_PoolStep(t) ==
    /\ pc[t] \in {"create_sweep", "create_connect", "disconnect_close", "cleanup_all"}
    /\ call[t].op \in {"create", "disconnect", "cleanup_all"}
    /\ pc'[t] # pc[t] \/ call'[t] # call[t]

\* thread t takes a step of one of the session operations
C39_SessionStep(t) ==
    \/ /\ pc[t] # "idle"
       /\ call[t].op \in C39_SessionOps
       /\ pc'[t] # pc[t] \/ call'[t] # call[t] \/ sent'[t] # sent[t]
    \/ /\ pc[t] = "idle"
       /\ pc'[t] # "idle"
       /\ call'[t].op \in C39_SessionOps
    \/ /\ pc[t] = "idle"
       /\ last' # last
       /\ last' # NoLast
       /\ last'.thread = t
       /\ last'.call.op \in C39_SessionOps

\* the session is dead or stale: the sweep of the next create would
\* remove it
C39_DeadOrStale(id) == id \in PoolIds /\ Evictable(connections[id], now)

\* C39: only create_connection (with its sweep), disconnect and
\* cleanup_all_connections change the set of pooled ids; no step of
\* get_connection, list_connections, test_connection, execute,
\* execute_multi, execute_interactive, upload, download, list_directory,
\* file_exists, get_system_info or get_command_history adds or removes an
\* entry, and get_connection on a dead or stale session still finds it
C39_OnlyPoolOpsChangeIds ==
    [][/\ DOMAIN connections' # DOMAIN connections =>
             \E t \in Threads : C39_PoolStep(t)
       /\ \A t \in Threads :
             (C39_SessionStep(t) /\ ~\E u \in Threads \ {t} : C39_PoolStep(u)) =>
                 DOMAIN connections' = DOMAIN connections
       /\ \A t \in Threads :
             (GetConnection(t, Session1) /\ C39_DeadOrStale(Session1)) =>
                 /\ last'.ret.value.found
                 /\ Session1 \in DOMAIN connections']_vars

\* get_connection has just found a session that a failed probe marked dead
\* and that is older than the age limit
C39_Witness ==
    /\ last # NoLast
    /\ last.call.op = "get_connection"
    /\ last.ret.status = "ok"
    /\ last.ret.value.found
    /\ Session1 \in PoolIds
    /\ ~connections[Session1].is_connected
    /\ Seconds(now) - Seconds(connections[Session1].created_at) > MaxAgeSeconds
====
